---- MODULE Spec2Model ----
(***************************************************************************)
(* A model of rosette's Notion-to-HTML converters.                         *)
(*                                                                         *)
(*   - the legacy string converter (richTextToHtml, blockToHtml,           *)
(*     blocksToHtml of src/src/converter.ts, class at lines 25-470);       *)
(*   - the schema-based converter (blocksToHtml / #blockToHastTree of      *)
(*     src/src/converter.ts lines 537-580 over the zod transformers of     *)
(*     src/test/mocks.ts lines 100-577).                                   *)
(*                                                                         *)
(* HTML is a sequence of tokens.  A character of text is a one-character   *)
(* string; a tag the converter generates is one longer string.             *)
(***************************************************************************)
EXTENDS Integers, Sequences, FiniteSets, TLC

\* Bounds of the model.
MaxBlocks == 3
MaxText == 3
MaxSchemaBlocks == 2
MaxChildren == 3
MaxEntries == 3
MaxListed == 4
MaxRequests == 5
MaxTableWidth == 3
MaxTableRows == 5
MaxIterations == 6
MaxCalls == 2
MaxPages == 2

VARIABLES
    blocks,           \* blocksToHtml: the sibling list being composed
    pageIdToSlugMap,  \* blocksToHtml: the resolution table
    i,                \* blocksToHtml: loop index (1-based)
    html,             \* blocksToHtml: the accumulated output
    listType,         \* blocksToHtml: "ul", "ol" or "null"
    pc,               \* blocksToHtml: position in the call
    richTextArray,    \* richTextToHtml: the spans being rendered
    rtMap,            \* richTextToHtml: the resolution table
    rtIdx,            \* richTextToHtml: index of the next span to map
    rtParts,          \* richTextToHtml: the mapped fragments so far
    rtOut,            \* richTextToHtml: the returned string
    rtPc,             \* richTextToHtml: position in the call
    sBlocks,          \* schema blocksToHtml: the blocks being rendered
    sIdx,             \* schema blocksToHtml: index of the next block to map
    sTree,            \* schema blocksToHtml: tree.children so far
    sHtml,            \* schema blocksToHtml: the returned string
    sError,           \* schema blocksToHtml: the exception thrown, if any
    sPc,              \* schema blocksToHtml: position in the call
    bBlock,           \* blockToHtml: the block being rendered
    bResult,          \* blockToHtml: the returned string, or the exception
    bPc,              \* blockToHtml: position in the call
    notion,           \* fetch: the remote behind the client, by block id
    fetches,          \* fetch: the calls of fetch, by block id
    fLog,             \* fetch: the client calls completed so far, in order
    revision,         \* process: the revision of database.ts that runs
    response,         \* process: the results of the database query
    slugs,            \* process: this.slugs, entry id -> slug
    entries,          \* process: this.entries, entry id -> entry
    contents,         \* process: the content promises, by result index
    pPc,              \* process: position in the call
    pError,           \* process: the message of the error process threw
    listing,          \* fetchBlockChildren: the remote's child listing
    cursor,           \* fetchBlockChildren: let cursor
    fetched,          \* fetchBlockChildren: const blocks
    requests,         \* fetchBlockChildren: the start_cursor of each list call
    lPc,              \* fetchBlockChildren: position in the call
    table,            \* table transform: the validated table payload
    tI,               \* table transform: let i
    tRows,            \* table transform: const rows
    tPc,              \* table transform: position in the transform
    calls,            \* manager: the calls of process on one manager
    slugOps           \* manager: the writes and reads of this.slugs, in order

composeVars == <<blocks, pageIdToSlugMap, i, html, listType, pc>>
richVars == <<richTextArray, rtMap, rtIdx, rtParts, rtOut, rtPc>>
schemaVars == <<sBlocks, sIdx, sTree, sHtml, sError, sPc>>
blockVars == <<bBlock, bResult, bPc>>
fetchVars == <<notion, fetches, fLog>>
processVars == <<revision, response, slugs, entries, contents, pPc, pError>>
listVars == <<listing, cursor, fetched, requests, lPc>>
tableVars == <<table, tI, tRows, tPc>>
managerVars == <<calls, slugOps>>
vars ==
    <<composeVars, richVars, schemaVars, blockVars, fetchVars, processVars,
      listVars, tableVars, managerVars>>

----------------------------------------------------------------------------
(* Values shared by the converters. *)

\* An optional array: a field that may be undefined.
Undefined == [defined |-> FALSE, items |-> <<>>]
Arr(s) == [defined |-> TRUE, items |-> s]

\* The result of a call: the string it returns, or an exception.
Ok(h) == [thrown |-> FALSE, html |-> h]
Thrown == [thrown |-> TRUE, html |-> <<>>]

\* Sequences over S of length at most n.
SeqUpTo(S, n) == UNION {[1..k -> S] : k \in 0..n}

RECURSIVE Flatten(_)
Flatten(ss) == IF ss = <<>> THEN <<>> ELSE Head(ss) \o Flatten(Tail(ss))

----------------------------------------------------------------------------
(* richTextToHtml, src/src/converter.ts lines 329-396. *)

Amp == <<"&", "a", "m", "p", ";">>
Lt == <<"&", "l", "t", ";">>
Gt == <<"&", "g", "t", ";">>
Quot == <<"&", "q", "u", "o", "t", ";">>
Apos == <<"&", "#", "0", "3", "9", ";">>

\* String.prototype.replace with a global single-character pattern.
RECURSIVE ReplaceAll(_, _, _)
ReplaceAll(s, ch, repl) ==
    IF s = <<>> THEN <<>>
    ELSE (IF Head(s) = ch THEN repl ELSE <<Head(s)>>)
             \o ReplaceAll(Tail(s), ch, repl)

\* The same five replacements with "&" replaced last instead of first.
EscapeAmpLast(text) ==
    ReplaceAll(
        ReplaceAll(
            ReplaceAll(
                ReplaceAll(ReplaceAll(text, "<", Lt), ">", Gt),
                "\"", Quot),
            "'", Apos),
        "&", Amp)

\* The chain of replacements applied to plain_text (lines 336-341).
EscapePlainText(text) ==
    ReplaceAll(
        ReplaceAll(
            ReplaceAll(
                ReplaceAll(ReplaceAll(text, "&", Amp), "<", Lt),
                ">", Gt),
            "\"", Quot),
        "'", Apos)

\* Map.prototype.get: found is FALSE where get returns undefined.
MapGet(map, key) ==
    IF key \in DOMAIN map
    THEN [found |-> TRUE, value |-> map[key]]
    ELSE [found |-> FALSE, value |-> ""]

\* A page mention (lines 345-352).  `if (mentionedPageSlug)` tests the
\* looked-up value for truthiness: undefined and "" both fail it.
PageMention(richText, content, map) ==
    LET mentionedPageId == richText.mention.id
        mentionedPageSlug == MapGet(map, mentionedPageId)
    IN  IF mentionedPageSlug.found /\ mentionedPageSlug.value # ""
        THEN Ok(<<"<a href=\"/posts/" \o mentionedPageSlug.value
                    \o "/\" class=\"page-mention\">">>
                \o content \o <<"</a>">>)
        ELSE Ok(<<"<span class=\"page-mention-unresolved\" data-page-id=\""
                    \o mentionedPageId \o "\">">>
                \o content \o <<" (Unresolved mention)", "</span>">>)

\* A date mention (lines 356-363); "" stands for null.
DateMention(date) ==
    <<"<time datetime=\"" \o date.start
        \o (IF date.end # "" THEN "/" \o date.end ELSE "") \o "\">",
      date.start
        \o (IF date.end # "" THEN " to " \o date.end ELSE "")
        \o (IF date.time_zone # "" THEN " (" \o date.time_zone \o ")" ELSE ""),
      "</time>">>

Wrap(open, content, close) == <<open>> \o content \o <<close>>

\* The same wrappers with italic applied before bold.
AnnotateItalicFirst(content, annotations) ==
    LET c1 == IF annotations.italic
              THEN Wrap("<em>", content, "</em>") ELSE content
        c2 == IF annotations.bold
              THEN Wrap("<strong>", c1, "</strong>") ELSE c1
        c3 == IF annotations.strikethrough
              THEN Wrap("<del>", c2, "</del>") ELSE c2
        c4 == IF annotations.underline THEN Wrap("<u>", c3, "</u>") ELSE c3
        c5 == IF annotations.code THEN Wrap("<code>", c4, "</code>") ELSE c4
    IN  IF annotations.color # "" /\ annotations.color # "default"
        THEN Wrap("<span class=\"color-" \o annotations.color \o "\">",
                  c5, "</span>")
        ELSE c5

\* The same wrappers with the color wrapper applied to every color.
AnnotateAnyColor(content, annotations) ==
    LET c1 == IF annotations.bold
              THEN Wrap("<strong>", content, "</strong>") ELSE content
        c2 == IF annotations.italic THEN Wrap("<em>", c1, "</em>") ELSE c1
        c3 == IF annotations.strikethrough
              THEN Wrap("<del>", c2, "</del>") ELSE c2
        c4 == IF annotations.underline THEN Wrap("<u>", c3, "</u>") ELSE c3
        c5 == IF annotations.code THEN Wrap("<code>", c4, "</code>") ELSE c4
    IN  IF annotations.color # ""
        THEN Wrap("<span class=\"color-" \o annotations.color \o "\">",
                  c5, "</span>")
        ELSE c5

\* The annotation wrappers of a text span (lines 373-388).
Annotate(content, annotations) ==
    LET c1 == IF annotations.bold
              THEN Wrap("<strong>", content, "</strong>") ELSE content
        c2 == IF annotations.italic THEN Wrap("<em>", c1, "</em>") ELSE c1
        c3 == IF annotations.strikethrough
              THEN Wrap("<del>", c2, "</del>") ELSE c2
        c4 == IF annotations.underline THEN Wrap("<u>", c3, "</u>") ELSE c3
        c5 == IF annotations.code THEN Wrap("<code>", c4, "</code>") ELSE c4
    IN  IF annotations.color # "" /\ annotations.color # "default"
        THEN Wrap("<span class=\"color-" \o annotations.color \o "\">",
                  c5, "</span>")
        ELSE c5

\* The callback of richTextArray.map (lines 335-394) for one span.
RenderRichText(richText, map) ==
    IF ~richText.hasPlainText THEN Thrown
    ELSE
    LET content == EscapePlainText(richText.plain_text) IN
    IF richText.type = "mention" THEN
        CASE richText.mention.type = "page" ->
                 PageMention(richText, content, map)
          [] richText.mention.type = "user" ->
                 Ok(<<"<span class=\"user-mention\">", "@User", "</span>">>)
          [] richText.mention.type = "date" ->
                 Ok(DateMention(richText.mention.date))
          [] OTHER -> Ok(content)
    ELSE IF richText.type = "equation" THEN
        Ok(<<"<span class=\"equation\">">> \o richText.expression
             \o <<"</span>">>)
    ELSE
    LET styled == IF richText.hasAnnotations
                  THEN Annotate(content, richText.annotations)
                  ELSE content
    IN  IF richText.href # ""
        THEN Ok(Wrap("<a href=\"" \o richText.href \o "\" target=\"_blank\">",
                     styled, "</a>"))
        ELSE Ok(styled)

\* richTextArray.map(...).join("") from span k on; an exception in the
\* callback ends the call.
RECURSIVE MapJoin(_, _, _)
MapJoin(items, k, map) ==
    IF k > Len(items) THEN Ok(<<>>)
    ELSE LET first == RenderRichText(items[k], map) IN
         IF first.thrown THEN Thrown
         ELSE LET rest == MapJoin(items, k + 1, map) IN
              IF rest.thrown THEN Thrown ELSE Ok(first.html \o rest.html)

\* richTextToHtml (lines 329-396) of an optional array of spans.
RichTextToHtml(arr, map) ==
    IF ~arr.defined \/ Len(arr.items) = 0 THEN Ok(<<>>)
    ELSE MapJoin(arr.items, 1, map)

\* The characters of a text as one string.
RECURSIVE JoinChars(_)
JoinChars(text) ==
    IF text = <<>> THEN "" ELSE Head(text) \o JoinChars(Tail(text))

\* richTextToPlainText (lines 85-88); a span without plain_text joins as
\* the empty string.
RichTextToPlainText(arr) ==
    IF ~arr.defined \/ Len(arr.items) = 0 THEN ""
    ELSE JoinChars(Flatten([k \in 1..Len(arr.items) |->
                               IF arr.items[k].hasPlainText
                               THEN arr.items[k].plain_text ELSE <<>>]))

----------------------------------------------------------------------------
(* blockToHtml and blocksToHtml, src/src/converter.ts lines 97-320 and     *)
(* 405-454.  A block is a record: hasType ("type" in block), type,          *)
(* payload (the kind-specific object is present), data (that object) and   *)
(* children (an optional array of blocks).                                 *)

Tag(t) == Ok(<<t>>)

\* A template literal: its parts are evaluated left to right and the first
\* exception ends the evaluation.
RECURSIVE Template(_)
Template(parts) ==
    IF parts = <<>> THEN Ok(<<>>)
    ELSE IF Head(parts).thrown THEN Thrown
    ELSE LET rest == Template(Tail(parts)) IN
         IF rest.thrown THEN Thrown ELSE Ok(Head(parts).html \o rest.html)

\* block.<type>.rich_text rendered; reading rich_text of a missing payload
\* object is a TypeError.
PayloadRichText(block, map) ==
    IF ~block.payload THEN Thrown
    ELSE RichTextToHtml(block.data.rich_text, map)

\* An unsupported block that renders to nothing.
UnsupportedBlockSilent(block) == Ok(<<>>)

\* The default case of the switch (lines 313-319).
UnsupportedBlock(block) ==
    Ok(<<"<!-- Unsupported block type: " \o block.type \o " -->">>)

\* The opening part of the loop body with the numbered branch opening the
\* bulleted wrapper.
OpenCloseWrongKind(st, block) ==
    IF block.type \in {"bulleted_list_item", "numbered_list_item"} THEN
        IF st.listType # "ul"
        THEN [html |-> st.html
                        \o (IF st.listType # "null"
                            THEN <<"</" \o st.listType \o ">">> ELSE <<>>)
                        \o <<"<ul>">>,
              listType |-> "ul"]
        ELSE st
    ELSE IF st.listType # "null"
    THEN [html |-> st.html \o <<"</" \o st.listType \o ">">>,
          listType |-> "null"]
    ELSE st

\* The opening part of the loop body without the test of the open wrapper:
\* every list item opens a wrapper of its kind.
OpenCloseAlways(st, block) ==
    IF block.type \in {"bulleted_list_item", "numbered_list_item"}
    THEN [html |-> st.html
                    \o <<IF block.type = "bulleted_list_item"
                         THEN "<ul>" ELSE "<ol>">>,
          listType |-> IF block.type = "bulleted_list_item"
                       THEN "ul" ELSE "ol"]
    ELSE IF st.listType # "null"
    THEN [html |-> st.html \o <<"</" \o st.listType \o ">">>,
          listType |-> "null"]
    ELSE st

\* Lines 419-434: open or close the list wrapper before the block.
OpenClose(st, block) ==
    IF block.type = "bulleted_list_item" THEN
        IF st.listType # "ul"
        THEN [html |-> st.html
                        \o (IF st.listType # "null"
                            THEN <<"</" \o st.listType \o ">">> ELSE <<>>)
                        \o <<"<ul>">>,
              listType |-> "ul"]
        ELSE st
    ELSE IF block.type = "numbered_list_item" THEN
        IF st.listType # "ol"
        THEN [html |-> st.html
                        \o (IF st.listType # "null"
                            THEN <<"</" \o st.listType \o ">">> ELSE <<>>)
                        \o <<"<ol>">>,
              listType |-> "ol"]
        ELSE st
    ELSE IF st.listType # "null"
    THEN [html |-> st.html \o <<"</" \o st.listType \o ">">>,
          listType |-> "null"]
    ELSE st

\* nextBlock && "type" in nextBlock && nextBlock.type === block.type
\* (lines 415 and 441-442); k is the 1-based index of the current block.
NextBlockIsSameList(bs, k) ==
    /\ k + 1 <= Len(bs)
    /\ bs[k + 1].hasType
    /\ bs[k + 1].type = bs[k].type

\* The loop body without the look-ahead close: a wrapper stays open until
\* the top of a later iteration or the end of the loop closes it.
LookAheadAbsent(st, bs, k) == st

\* The look-ahead close without the reset of listType.
LookAheadNoReset(st, bs, k) ==
    LET currentBlockIsList ==
            bs[k].type \in {"bulleted_list_item", "numbered_list_item"}
    IN  IF st.listType # "null" /\ currentBlockIsList
             /\ ~NextBlockIsSameList(bs, k)
        THEN [html |-> st.html \o <<"</" \o st.listType \o ">">>,
              listType |-> st.listType]
        ELSE st

\* Lines 438-447: close the wrapper after the last item of a run.
LookAhead(st, bs, k) ==
    LET currentBlockIsList ==
            bs[k].type \in {"bulleted_list_item", "numbered_list_item"}
    IN  IF st.listType # "null" /\ currentBlockIsList
             /\ ~NextBlockIsSameList(bs, k)
        THEN [html |-> st.html \o <<"</" \o st.listType \o ">">>,
              listType |-> "null"]
        ELSE st

\* Lines 450-453: close a wrapper still open after the loop.
FinalClose(st) ==
    IF st.listType # "null"
    THEN st.html \o <<"</" \o st.listType \o ">">>
    ELSE st.html

\* The image case without the test of the caption's length.
ImageEmptyCaption(block, map) ==
    IF ~block.payload THEN Thrown
    ELSE LET image == block.data IN
         IF (image.type = "external" /\ ~image.hasExternal)
                \/ (image.type # "external" /\ ~image.hasFile)
         THEN Thrown
         ELSE LET imageUrl == IF image.type = "external"
                              THEN image.external ELSE image.file
                  captionText == RichTextToPlainText(image.caption)
              IN  Template(
                      <<Tag("<figure>"),
                        Tag("<img src=\"" \o imageUrl \o "\" alt=\""
                              \o (IF captionText # "" THEN captionText
                                  ELSE "image") \o "\" />"),
                        IF image.caption.defined
                        THEN Template(<<Tag("<figcaption>"),
                                        RichTextToHtml(image.caption, map),
                                        Tag("</figcaption>")>>)
                        ELSE Ok(<<>>),
                        Tag("</figure>")>>)

\* The image case of the switch (lines 223-242).  Reading the url of a
\* missing source object is a TypeError.
Image(block, map) ==
    IF ~block.payload THEN Thrown
    ELSE LET image == block.data IN
         IF (image.type = "external" /\ ~image.hasExternal)
                \/ (image.type # "external" /\ ~image.hasFile)
         THEN Thrown
         ELSE LET imageUrl == IF image.type = "external"
                              THEN image.external ELSE image.file
                  captionText == RichTextToPlainText(image.caption)
              IN  Template(
                      <<Tag("<figure>"),
                        Tag("<img src=\"" \o imageUrl \o "\" alt=\""
                              \o (IF captionText # "" THEN captionText
                                  ELSE "image") \o "\" />"),
                        IF image.caption.defined /\ Len(image.caption.items) > 0
                        THEN Template(<<Tag("<figcaption>"),
                                        RichTextToHtml(image.caption, map),
                                        Tag("</figcaption>")>>)
                        ELSE Ok(<<>>),
                        Tag("</figure>")>>)

RECURSIVE BlockToHtml(_, _)
RECURSIVE BlocksToHtml(_, _)
RECURSIVE ComposeFrom(_, _, _, _)

\* The children part without the test of block.children: mapping over
\* absent children is a TypeError.
ChildrenHtmlNoGuard(block, open, close, map) ==
    IF block.children.defined
    THEN Template(open \o <<BlocksToHtml(block.children.items, map)>>
                       \o close)
    ELSE Thrown

\* `${block.children ? open + blocksToHtml(children) + close : ""}`
ChildrenHtml(block, open, close, map) ==
    IF block.children.defined
    THEN Template(open \o <<BlocksToHtml(block.children.items, map)>>
                       \o close)
    ELSE Ok(<<>>)

\* blockToHtml (lines 97-320).
BlockToHtml(block, map) ==
    IF ~block.hasType THEN Ok(<<>>)
    ELSE CASE block.type = "paragraph" ->
                  Template(<<Tag("<p>"), PayloadRichText(block, map),
                             Tag("</p>")>>)
           [] block.type = "heading_1" ->
                  Template(<<Tag("<h1>"), PayloadRichText(block, map),
                             Tag("</h1>")>>)
           [] block.type = "heading_2" ->
                  Template(<<Tag("<h2>"), PayloadRichText(block, map),
                             Tag("</h2>")>>)
           [] block.type = "heading_3" ->
                  Template(<<Tag("<h3>"), PayloadRichText(block, map),
                             Tag("</h3>")>>)
           [] block.type = "bulleted_list_item" ->
                  Template(<<Tag("<li>"), PayloadRichText(block, map),
                             ChildrenHtml(block, <<Tag("<ul>")>>,
                                          <<Tag("</ul>")>>, map),
                             Tag("</li>")>>)
           [] block.type = "numbered_list_item" ->
                  Template(<<Tag("<li>"), PayloadRichText(block, map),
                             ChildrenHtml(block, <<Tag("<ol>")>>,
                                          <<Tag("</ol>")>>, map),
                             Tag("</li>")>>)
           [] block.type = "to_do" ->
                  Template(<<IF ~block.payload THEN Thrown
                             ELSE Tag("<div class=\"todo-item\">"
                                      \o "<input type=\"checkbox\""
                                      \o (IF block.data.checked
                                          THEN " checked" ELSE "")
                                      \o " disabled /> <span>"),
                             PayloadRichText(block, map),
                             Tag("</span></div>")>>)
           [] block.type = "toggle" ->
                  Template(<<Tag("<details>"), Tag("<summary>"),
                             PayloadRichText(block, map),
                             Tag("</summary>"),
                             ChildrenHtml(block, <<>>, <<>>, map),
                             Tag("</details>")>>)
           [] block.type = "quote" ->
                  Template(<<Tag("<blockquote>"),
                             PayloadRichText(block, map),
                             ChildrenHtml(block, <<>>, <<>>, map),
                             Tag("</blockquote>")>>)
           [] block.type = "divider" -> Tag("<hr>")
           [] block.type = "image" -> Image(block, map)
           [] block.type = "column_list" ->
                  ChildrenHtml(block, <<Tag("<div class=\"column-list\">")>>,
                               <<Tag("</div>")>>, map)
           [] block.type = "column" ->
                  ChildrenHtml(block, <<Tag("<div class=\"column\">")>>,
                               <<Tag("</div>")>>, map)
           [] OTHER -> UnsupportedBlock(block)

\* The loop of blocksToHtml (lines 413-448) from block k on; st holds html
\* and listType, and an exception in blockToHtml ends the call.
ComposeFrom(st, bs, k, map) ==
    IF k > Len(bs) THEN Ok(FinalClose(st))
    ELSE IF ~bs[k].hasType THEN ComposeFrom(st, bs, k + 1, map)
    ELSE LET opened == OpenClose(st, bs[k])
             fragment == BlockToHtml(bs[k], map)
         IN  IF fragment.thrown THEN Thrown
             ELSE ComposeFrom(
                      LookAhead([html |-> opened.html \o fragment.html,
                                 listType |-> opened.listType], bs, k),
                      bs, k + 1, map)

\* blocksToHtml (lines 405-454) of a sibling list.
BlocksToHtml(bs, map) ==
    IF Len(bs) = 0 THEN Ok(<<>>)
    ELSE ComposeFrom([html |-> <<>>, listType |-> "null"], bs, 1, map)

----------------------------------------------------------------------------
(* The inputs the model draws. *)

EmptyMap == [id \in {} |-> ""]

NoAnnotations ==
    [bold |-> FALSE, italic |-> FALSE, strikethrough |-> FALSE,
     underline |-> FALSE, code |-> FALSE, color |-> "default"]

TextSpan(text, annotations, href) ==
    [type |-> "text", hasPlainText |-> TRUE, plain_text |-> text,
     hasAnnotations |-> TRUE, annotations |-> annotations, href |-> href]

PlainSpan(text) == TextSpan(text, NoAnnotations, "")

PageMentionSpan(text, id) ==
    [type |-> "mention", hasPlainText |-> TRUE, plain_text |-> text,
     mention |-> [type |-> "page", id |-> id]]

OtherMentionSpan(text, kind) ==
    [type |-> "mention", hasPlainText |-> TRUE, plain_text |-> text,
     mention |-> [type |-> kind,
                  date |-> [start |-> "2024-06-01", end |-> "",
                            time_zone |-> ""]]]

EquationSpan(text) ==
    [type |-> "equation", hasPlainText |-> TRUE, plain_text |-> text,
     expression |-> text]

\* A span without plain_text, as a caller may hand one in.
BrokenSpan == [type |-> "text", hasPlainText |-> FALSE]

Block(type, text, children) ==
    [hasType |-> TRUE, type |-> type, payload |-> TRUE,
     data |-> [rich_text |-> Arr(<<PlainSpan(text)>>)],
     children |-> children]

\* { type: <type> } and nothing else.
BareBlock(type) ==
    [hasType |-> TRUE, type |-> type, payload |-> FALSE,
     children |-> Undefined]

\* An object without a type.
UntypedBlock == [hasType |-> FALSE, children |-> Undefined]

ListItemTypes == {"bulleted_list_item", "numbered_list_item"}

\* List items whose children field is an array: empty, a list item of the
\* same kind, a paragraph.
ParentItems ==
    {Block("bulleted_list_item", <<"A">>, Arr(c)) :
        c \in {<<>>,
               <<Block("bulleted_list_item", <<"B">>, Undefined)>>,
               <<Block("paragraph", <<"B">>, Undefined)>>}}
        \cup {Block("numbered_list_item", <<"A">>,
                    Arr(<<Block("numbered_list_item", <<"B">>, Undefined)>>))}

\* The blocks of the sibling lists: list items with and without children,
\* a paragraph, a block of an unknown type, an object without a type and a
\* paragraph without its payload.
ComposeBlocks ==
    {Block(t, <<"A">>, Undefined) : t \in ListItemTypes \cup {"paragraph"}}
        \cup ParentItems
        \cup {BareBlock("unsupported_type"), BareBlock("paragraph"),
              UntypedBlock}

----------------------------------------------------------------------------
(* A call of blocksToHtml(blocks, pageIdToSlugMap), one step per part of   *)
(* the loop body.                                                          *)

ComposeInit ==
    /\ blocks \in SeqUpTo(ComposeBlocks, MaxBlocks)
    /\ pageIdToSlugMap = EmptyMap
    /\ i = 1
    /\ html = <<>>
    /\ listType = "null"
    /\ pc = "call"

\* Line 409: the empty list returns "" at once.
CallBlocksToHtml ==
    /\ pc = "call"
    /\ pc' = IF Len(blocks) = 0 THEN "done" ELSE "top"
    /\ UNCHANGED <<blocks, pageIdToSlugMap, i, html, listType>>

\* Line 417: a block without a type is skipped.
LoopContinue ==
    /\ pc = "top"
    /\ i <= Len(blocks)
    /\ ~blocks[i].hasType
    /\ i' = i + 1
    /\ UNCHANGED <<blocks, pageIdToSlugMap, html, listType, pc>>

\* Lines 419-434.
LoopOpenClose ==
    /\ pc = "top"
    /\ i <= Len(blocks)
    /\ blocks[i].hasType
    /\ LET st == OpenClose([html |-> html, listType |-> listType], blocks[i])
       IN  /\ html' = st.html
           /\ listType' = st.listType
    /\ pc' = "append"
    /\ UNCHANGED <<blocks, pageIdToSlugMap, i>>

\* Line 436: html += this.blockToHtml(block, pageIdToSlugMap).
LoopAppend ==
    /\ pc = "append"
    /\ LET fragment == BlockToHtml(blocks[i], pageIdToSlugMap)
       IN  IF fragment.thrown
           THEN /\ pc' = "thrown"
                /\ html' = html
           ELSE /\ pc' = "look"
                /\ html' = html \o fragment.html
    /\ UNCHANGED <<blocks, pageIdToSlugMap, i, listType>>

\* Lines 438-447, then i++.
LoopLookAhead ==
    /\ pc = "look"
    /\ LET st == LookAhead([html |-> html, listType |-> listType], blocks, i)
       IN  /\ html' = st.html
           /\ listType' = st.listType
    /\ i' = i + 1
    /\ pc' = "top"
    /\ UNCHANGED <<blocks, pageIdToSlugMap>>

\* Lines 450-453: the loop is over.
LoopExit ==
    /\ pc = "top"
    /\ i > Len(blocks)
    /\ html' = FinalClose([html |-> html, listType |-> listType])
    /\ pc' = "done"
    /\ UNCHANGED <<blocks, pageIdToSlugMap, i, listType>>

----------------------------------------------------------------------------
(* A call of blockToHtml(bBlock, new Map()) on one block.                  *)

ExternalUrl == "https://x/img.png"
FileUrl == "https://files/img.png"

\* The captions of the image blocks: absent, empty, plain, styled, and two
\* spans.
Captions ==
    {Undefined, Arr(<<>>),
     Arr(<<PlainSpan(<<"C", "a", "p">>)>>),
     Arr(<<TextSpan(<<"<", "b">>, [NoAnnotations EXCEPT !.bold = TRUE], "")>>),
     Arr(<<PlainSpan(<<"C">>), PlainSpan(<<"a", "p">>)>>)}

ImageBlock(type, hasExternal, hasFile, caption) ==
    [hasType |-> TRUE, type |-> "image", payload |-> TRUE,
     data |-> [type |-> type, hasExternal |-> hasExternal,
               external |-> ExternalUrl, hasFile |-> hasFile,
               file |-> FileUrl, caption |-> caption],
     children |-> Undefined]

ImageBlocks ==
    {ImageBlock(type, hasExternal, hasFile, caption) :
         type \in {"external", "file"}, hasExternal \in BOOLEAN,
         hasFile \in BOOLEAN, caption \in Captions}

\* Toggles whose children are absent, empty, rendered blocks, list items,
\* or a block that cannot be rendered.
ToggleBlocks ==
    {Block("toggle", <<"S", "&">>, children) :
         children \in {Undefined, Arr(<<>>),
                       Arr(<<Block("paragraph", <<"B">>, Undefined)>>),
                       Arr(<<Block("bulleted_list_item", <<"B">>, Undefined),
                             Block("bulleted_list_item", <<"C">>, Undefined)>>),
                       Arr(<<Block("toggle", <<"T">>, Arr(<<>>)),
                             Block("paragraph", <<"B">>, Undefined)>>),
                       Arr(<<BareBlock("paragraph")>>)}}
        \cup {BareBlock("toggle")}

BlockInputs == ImageBlocks \cup ToggleBlocks \cup ComposeBlocks

BlockInit ==
    /\ bBlock \in BlockInputs
    /\ bResult = Ok(<<>>)
    /\ bPc = "call"

\* Lines 97-320: the call returns a string or throws.
CallBlockToHtml ==
    /\ bPc = "call"
    /\ bResult' = BlockToHtml(bBlock, EmptyMap)
    /\ bPc' = IF BlockToHtml(bBlock, EmptyMap).thrown THEN "thrown" ELSE "done"
    /\ UNCHANGED bBlock

----------------------------------------------------------------------------
(* A call of richTextToHtml(richTextArray, rtMap), one step per span.      *)

TextChars == {"&", "<", ">", "\"", "'", "a"}
PageIds == {"X", "Y"}
Slugs == {"my-slug", ""}
SlugMaps == UNION {[ids -> Slugs] : ids \in SUBSET PageIds}

StyledSpans ==
    {TextSpan(<<"<", "a">>, [NoAnnotations EXCEPT !.bold = TRUE], ""),
     TextSpan(<<"a", "&">>, [NoAnnotations EXCEPT !.code = TRUE,
                                                  !.color = "red"],
              "https://example.com"),
     TextSpan(<<"'">>, NoAnnotations, "https://example.com")}

MentionSpans ==
    {PageMentionSpan(<<"a", "<">>, id) : id \in PageIds}
        \cup {OtherMentionSpan(<<"a">>, k) : k \in {"user", "date", "database"}}

\* Every combination of the annotation flags, with and without a color.
AnnotationCombos ==
    [bold : BOOLEAN, italic : BOOLEAN, strikethrough : BOOLEAN,
     underline : BOOLEAN, code : BOOLEAN, color : {"default", "red"}]

AnnotatedSpans ==
    {TextSpan(<<"a", "<">>, an, href) :
         an \in AnnotationCombos, href \in {"", "https://example.com"}}

RichInputs ==
    {[arr |-> Undefined, map |-> EmptyMap]}
        \cup {[arr |-> Arr(<<span>>), map |-> EmptyMap] : span \in AnnotatedSpans}
        \cup {[arr |-> Arr(<<PlainSpan(t)>>), map |-> EmptyMap] :
                 t \in SeqUpTo(TextChars, MaxText)}
        \cup {[arr |-> Arr(ss), map |-> m] :
                 ss \in SeqUpTo(MentionSpans, 1), m \in SlugMaps}
        \cup {[arr |-> Arr(ss), map |-> EmptyMap] :
                 ss \in SeqUpTo(StyledSpans
                                    \cup {EquationSpan(<<"<">>), BrokenSpan,
                                          PlainSpan(<<"\"", ">">>),
                                          PlainSpan(<<"&", "a">>)}, 2)}

RichInit ==
    /\ \E in \in RichInputs :
           /\ richTextArray = in.arr
           /\ rtMap = in.map
    /\ rtIdx = 1
    /\ rtParts = <<>>
    /\ rtOut = <<>>
    /\ rtPc = "call"

\* Line 333: undefined and the empty array return "".
RichTextEarlyReturn ==
    /\ rtPc = "call"
    /\ ~richTextArray.defined \/ Len(richTextArray.items) = 0
    /\ rtPc' = "done"
    /\ UNCHANGED <<richTextArray, rtMap, rtIdx, rtParts, rtOut>>

\* Lines 335-394: the callback for the next span.
RichTextMapCallback ==
    /\ rtPc \in {"call", "map"}
    /\ richTextArray.defined
    /\ rtIdx <= Len(richTextArray.items)
    /\ LET fragment == RenderRichText(richTextArray.items[rtIdx], rtMap)
       IN  IF fragment.thrown
           THEN /\ rtPc' = "thrown"
                /\ UNCHANGED <<rtIdx, rtParts>>
           ELSE /\ rtPc' = "map"
                /\ rtIdx' = rtIdx + 1
                /\ rtParts' = Append(rtParts, fragment.html)
    /\ UNCHANGED <<richTextArray, rtMap, rtOut>>

\* Line 395: .join("").
RichTextJoin ==
    /\ rtPc = "map"
    /\ rtIdx > Len(richTextArray.items)
    /\ rtOut' = Flatten(rtParts)
    /\ rtPc' = "done"
    /\ UNCHANGED <<richTextArray, rtMap, rtIdx, rtParts>>

----------------------------------------------------------------------------
(* The schema-based converter: the zod transformers of src/test/mocks.ts   *)
(* lines 100-577 build a hast tree, blocksToHtml / #blockToHastTree of      *)
(* src/src/converter.ts lines 540-553 assemble and serialize it.           *)
(*                                                                         *)
(* A block is a record: id, type, hasData (the kind-specific object is     *)
(* present), data (that object) and children (the generic optional array). *)
(* In data, color "" stands for an absent color.                           *)

\* hastscript's h(tagName, properties, children): an element.  properties
\* holds the attributes as they are serialized.
H(tagName, properties, children) ==
    [type |-> "element", tagName |-> tagName, properties |-> properties,
     children |-> children, value |-> ""]

\* A text node.
TextNode(value) ==
    [type |-> "text", tagName |-> "", properties |-> <<>>,
     children |-> <<>>, value |-> value]

NoNode == TextNode("")

\* The outcome of a parse: a node, a ZodError (the input matches no
\* schema) or a TypeError thrown by a transform.
Parsed(nodes) == [status |-> "ok", nodes |-> nodes]
ZodError == [status |-> "ZodError", nodes |-> <<>>]
TypeError == [status |-> "TypeError", nodes |-> <<>>]

\* The members of enum COLORS the model uses (mocks.ts lines 104-124).
COLORS == {"default", "red", "blue_background"}

\* colorClass (mocks.ts lines 126-129): color.replace("_", "-") after
\* "notion-"; an undefined color has no replace method.
ColorClass(color) ==
    CASE color = "" -> TypeError
      [] color = "default" -> Parsed(<<"class=\"\"">>)
      [] color = "red" -> Parsed(<<"class=\"notion-red\"">>)
      [] color = "blue_background" ->
             Parsed(<<"class=\"notion-blue-background\"">>)

\* One step of addAnnotations: `nodes` inside a new element when `cond`.
WrapIf(cond, tagName, properties, nodes) ==
    IF cond THEN <<H(tagName, properties, nodes)>> ELSE nodes

\* addAnnotations (mocks.ts lines 140-154) on the children a span yields.
AddAnnotations(nodes, data) ==
    WrapIf(data.color # "" /\ data.color # "default", "span",
           ColorClass(data.color).nodes,
      WrapIf(data.code, "code", <<>>,
        WrapIf(data.underline, "u", <<>>,
          WrapIf(data.strikethrough, "del", <<>>,
            WrapIf(data.italic, "em", <<>>,
              WrapIf(data.bold, "strong", <<>>, nodes))))))

\* blockRichText (mocks.ts lines 156-221) on one span: the text, equation
\* and page-mention schemas; any other span matches none of them.
ParseRichText(span) ==
    CASE span.type = "text" /\ span.hasText ->
             Parsed(WrapIf(span.link # "", "a",
                           <<"href=\"" \o span.link \o "\"">>,
                           AddAnnotations(<<TextNode(span.content)>>,
                                          span.annotations)))
      [] span.type = "equation" ->
             Parsed(AddAnnotations(
                 <<H("code", <<"class=\"language-math\"">>,
                     <<TextNode(span.content)>>)>>, span.annotations))
      [] span.type = "mention" /\ span.mention = "page" ->
             Parsed(AddAnnotations(
                 <<H("a", <<"data-notion-page-mention=\"" \o span.id \o "\"">>,
                     <<TextNode(span.content)>>)>>, span.annotations))
      [] OTHER -> ZodError

\* z.array(schema) over the results of its elements: an exception in a
\* transform leaves the parse, issues are collected, and the parsed
\* elements are the array otherwise.
CollectArray(results) ==
    IF \E k \in DOMAIN results : results[k].status = "TypeError"
    THEN TypeError
    ELSE IF \E k \in DOMAIN results : results[k].status = "ZodError"
    THEN ZodError
    ELSE Parsed(Flatten([k \in DOMAIN results |-> results[k].nodes]))

\* z.array(blockRichText) on an optional array of spans; undefined is not
\* an array.
ParseRichTextArray(arr) ==
    IF ~arr.defined THEN ZodError
    ELSE CollectArray([k \in 1..Len(arr.items) |-> ParseRichText(arr.items[k])])

\* h(tagName, inner, after) around parsed children.
WrapIn(tagName, inner, after) ==
    IF inner.status # "ok" THEN inner
    ELSE Parsed(<<H(tagName, <<>>, inner.nodes \o after)>>)

\* tableRow (mocks.ts lines 430-445): one "tr" with one "td" per cell.
ParseTableRow(row) ==
    IF row.type # "table_row" \/ ~row.hasData THEN ZodError
    ELSE WrapIn("tr",
             CollectArray([k \in 1..Len(row.data.cells) |->
                 WrapIn("td", ParseRichTextArray(Arr(row.data.cells[k])),
                        <<>>)]),
             <<>>)

\* The loop of the table transform (mocks.ts lines 461-464) from index k
\* (0-based) on: slices of table_width children, for a positive table_width.
RECURSIVE SplitRows(_, _, _)
SplitRows(children, k, table_width) ==
    IF ~(k < Len(children)) THEN <<>>
    ELSE <<SubSeq(children, k + 1,
                  IF k + table_width < Len(children)
                  THEN k + table_width ELSE Len(children))>>
             \o SplitRows(children, k + table_width, table_width)

\* How hastscript takes an array of arrays of nodes as children: every
\* node of every inner array becomes a child, in order.
AddChildren(rows) == Flatten(rows)

\* The transform of table (mocks.ts lines 458-467) on the parsed rows.
TableOf(children, table_width) ==
    IF children.status # "ok" THEN children
    ELSE Parsed(<<H("table", <<>>,
                    <<H("tbody", <<>>,
                        AddChildren(SplitRows(children.nodes, 0,
                                              table_width)))>>)>>)

\* table (mocks.ts lines 447-467).
ParseTable(b) ==
    IF ~b.hasData \/ ~b.data.children.defined THEN ZodError
    ELSE TableOf(CollectArray([k \in 1..Len(b.data.children.items) |->
                                  ParseTableRow(b.data.children.items[k])]),
                 b.data.table_width)

RECURSIVE ParseElement(_)

\* z.array(z.lazy(() => element)).optional() on a kind-specific children
\* field.
ParseOptionalElements(arr) ==
    IF ~arr.defined THEN Parsed(<<>>)
    ELSE CollectArray([k \in 1..Len(arr.items) |-> ParseElement(arr.items[k])])

\* The outcome of an object schema from those of its fields.
PayloadResult(spans, kids, validColor) ==
    IF spans.status = "TypeError" \/ kids.status = "TypeError" THEN TypeError
    ELSE IF spans.status = "ZodError" \/ kids.status = "ZodError" \/ ~validColor
    THEN ZodError
    ELSE spans

\* The object schemas of the blocks that carry rich_text: the spans, and
\* for the kinds that declare them the optional color and the optional
\* kind-specific children.  Keys a schema does not declare are not read.
ParseTextPayload(b, hasColor, hasChildren) ==
    IF ~b.hasData THEN ZodError
    ELSE PayloadResult(
             ParseRichTextArray(b.data.rich_text),
             IF hasChildren THEN ParseOptionalElements(b.data.children)
             ELSE Parsed(<<>>),
             hasColor => b.data.color \in COLORS \cup {""})

\* h(tagName, { class: colorClass(color) }, before, spans) once the object
\* schema has passed: the element, or the TypeError of colorClass.
ColoredElement(color, tagName, before, spans) ==
    IF spans.status # "ok" THEN spans
    ELSE IF ColorClass(color).status # "ok" THEN TypeError
    ELSE Parsed(<<H(tagName, ColorClass(color).nodes, before \o spans.nodes)>>)

\* heading1, heading2, heading3 (mocks.ts lines 223-266).
Heading(b, spans) ==
    WrapIn(CASE b.type = "heading_1" -> "h1"
             [] b.type = "heading_2" -> "h2"
             [] OTHER -> "h3", spans, <<>>)

\* bulletedListItem and numberedListItem (mocks.ts lines 469-517): the
\* entry inside a wrapper of its kind.
ListItem(b, spans) ==
    WrapIn(IF b.type = "bulleted_list_item" THEN "ul" ELSE "ol",
           ColoredElement(b.data.color, "li", <<>>, spans), <<>>)

\* toDo (mocks.ts lines 519-544).
ToDo(b, spans) ==
    WrapIn("ul",
           ColoredElement(b.data.color, "li",
               <<H("input",
                   <<"type=\"checkbox\"">>
                       \o (IF b.data.checked THEN <<"checked">> ELSE <<>>),
                   <<>>)>>, spans),
           <<>>)

\* toggle (mocks.ts lines 410-428).
Toggle(b, spans) ==
    WrapIn("details",
           ColoredElement(b.data.color, "summary", <<>>, spans),
           IF b.data.children.defined
           THEN <<H("div", <<>>, ParseOptionalElements(b.data.children).nodes)>>
           ELSE <<>>)

\* element (mocks.ts lines 554-571): the union of the block transformers.
ParseElement(b) ==
    CASE b.type \in {"heading_1", "heading_2", "heading_3"} ->
             Heading(b, ParseTextPayload(b, FALSE, FALSE))
      [] b.type = "paragraph" ->
             ColoredElement(b.data.color, "p", <<>>,
                            ParseTextPayload(b, TRUE, FALSE))
      [] b.type = "quote" ->
             ColoredElement(b.data.color, "blockquote", <<>>,
                            ParseTextPayload(b, TRUE, FALSE))
      [] b.type \in {"bulleted_list_item", "numbered_list_item"} ->
             ListItem(b, ParseTextPayload(b, TRUE, TRUE))
      [] b.type = "to_do" -> ToDo(b, ParseTextPayload(b, TRUE, TRUE))
      [] b.type = "toggle" -> Toggle(b, ParseTextPayload(b, TRUE, TRUE))
      [] b.type = "table" -> ParseTable(b)
      [] OTHER -> ZodError

\* The exception that leaves element.parse(block): zod's own error, whose
\* message lists the issues, or the transform's TypeError.
ParseFailure(b, status) ==
    [name |-> status,
     message |-> IF status = "ZodError"
                 THEN <<"invalid_union", "Invalid input">>
                 ELSE <<"Cannot read properties of undefined (reading 'replace')">>,
     id |-> b.id, type |-> b.type]

NoError == [name |-> "", message |-> <<>>, id |-> "", type |-> ""]

NoErrorWith(nodes) == [error |-> NoError, nodes |-> nodes]

\* The array blocks.map builds from its first callback and the rest; an
\* exception in a callback leaves the map.
ConcatTrees(first, rest) ==
    IF first.error # NoError THEN first
    ELSE IF rest.error # NoError THEN rest
    ELSE NoErrorWith(first.nodes \o rest.nodes)

\* Line 551: node.children = the trees of block.children.
ReplaceChildren(node, kids) ==
    IF kids.error # NoError THEN kids
    ELSE NoErrorWith(<<[node EXCEPT !.children = kids.nodes]>>)

RECURSIVE MapToHastTree(_)

\* Lines 549-552 once element.parse has returned or thrown.
HastTreeOf(block, parsed) ==
    IF parsed.status # "ok"
    THEN [error |-> ParseFailure(block, parsed.status), nodes |-> <<>>]
    ELSE IF block.children.defined
    THEN ReplaceChildren(parsed.nodes[1], MapToHastTree(block.children.items))
    ELSE NoErrorWith(parsed.nodes)

\* #blockToHastTree (converter.ts lines 548-553): parse the block, then
\* replace the node's children by the trees of block.children.
BlockToHastTree(block) == HastTreeOf(block, ParseElement(block))

MapToHastTree(bs) ==
    IF bs = <<>> THEN NoErrorWith(<<>>)
    ELSE ConcatTrees(BlockToHastTree(Head(bs)), MapToHastTree(Tail(bs)))

\* hast-util-to-html on a node: the open tag with its attributes, the
\* children, the close tag (none for the void elements).
RECURSIVE Attributes(_)
Attributes(properties) ==
    IF properties = <<>> THEN ""
    ELSE " " \o Head(properties) \o Attributes(Tail(properties))

RECURSIVE ToHtml(_)
RECURSIVE AllToHtml(_)
AllToHtml(nodes) ==
    IF nodes = <<>> THEN <<>>
    ELSE ToHtml(Head(nodes)) \o AllToHtml(Tail(nodes))

ToHtml(node) ==
    IF node.type = "text" THEN <<node.value>>
    ELSE <<"<" \o node.tagName \o Attributes(node.properties) \o ">">>
             \o AllToHtml(node.children)
             \o (IF node.tagName \in {"input", "img"} THEN <<>>
                 ELSE <<"</" \o node.tagName \o ">">>)

\* Inputs of the schema-based converter.
SchemaAnnotations(bold) ==
    [bold |-> bold, italic |-> FALSE, strikethrough |-> FALSE,
     underline |-> FALSE, code |-> FALSE, color |-> ""]

SchemaText(content, bold) ==
    [type |-> "text", hasText |-> TRUE, content |-> content, link |-> "",
     annotations |-> SchemaAnnotations(bold), mention |-> "", id |-> ""]

\* A user mention: none of the three span schemas accepts it.
SchemaUserMention ==
    [type |-> "mention", hasText |-> FALSE, content |-> "@user", link |-> "",
     annotations |-> SchemaAnnotations(FALSE), mention |-> "user", id |-> ""]

TextPayload(spans, color, children) ==
    [rich_text |-> spans, color |-> color, children |-> children,
     checked |-> FALSE]

SchemaBlock(id, type, data, children) ==
    [id |-> id, type |-> type, hasData |-> TRUE, data |-> data,
     children |-> children]

\* A block whose kind-specific object is missing.
SchemaBareBlock(id, type) ==
    [id |-> id, type |-> type, hasData |-> FALSE,
     data |-> TextPayload(Undefined, "", Undefined), children |-> Undefined]

SchemaTextBlock(id, type, content, color) ==
    SchemaBlock(id, type,
                TextPayload(Arr(<<SchemaText(content, FALSE)>>), color,
                            Undefined),
                Undefined)

SchemaTableRow(id, cells) ==
    SchemaBlock(id, "table_row", [cells |-> cells], Undefined)

SchemaCell(content) == <<SchemaText(content, FALSE)>>

\* A table of `rows` rows of `cols` cells, its rows under table.children.
SchemaTable(id, table_width, rows, cols) ==
    SchemaBlock(id, "table",
        [table_width |-> table_width,
         children |-> Arr([r \in 1..rows |->
                              SchemaTableRow("row", [c \in 1..cols |->
                                                        SchemaCell("T")])])],
        Undefined)

ValidParagraph == SchemaTextBlock("paragraph-1", "paragraph", "A", "default")
InvalidParagraph ==
    SchemaBlock("malformed-paragraph-456", "paragraph",
                TextPayload(Undefined, "default", Undefined), Undefined)

SchemaBlocks ==
    { ValidParagraph,
      InvalidParagraph,
      SchemaBareBlock("invalid-block-123", "unsupported_block_type"),
      SchemaTextBlock("bullet-1", "bulleted_list_item", "A", "default"),
      SchemaTextBlock("number-1", "numbered_list_item", "A", "red"),
      SchemaTextBlock("bullet-2", "bulleted_list_item", "A", ""),
      SchemaBlock("todo-1", "to_do",
                  [TextPayload(Arr(<<SchemaText("A", TRUE)>>), "default",
                               Undefined) EXCEPT !.checked = TRUE],
                  Undefined),
      SchemaBlock("paragraph-2", "paragraph",
                  TextPayload(Arr(<<SchemaUserMention>>), "default",
                              Undefined), Undefined),
      SchemaTable("table-1", 2, 4, 2),
      SchemaTable("table-2", 1, 2, 1),
      SchemaTable("table-3", 2, 4, 1),
      SchemaBlock("toggle-1", "toggle",
                  TextPayload(Arr(<<SchemaText("A", FALSE)>>),
                              "blue_background", Arr(<<ValidParagraph>>)),
                  Undefined),
      SchemaBlock("toggle-2", "toggle",
                  TextPayload(Arr(<<SchemaText("A", FALSE)>>), "default",
                              Arr(<<InvalidParagraph>>)),
                  Undefined),
      SchemaBlock("quote-1", "quote",
                  TextPayload(Arr(<<SchemaText("A", FALSE)>>), "default",
                              Undefined),
                  Arr(<<ValidParagraph>>)),
      SchemaBlock("heading-1", "heading_1",
                  TextPayload(Arr(<<SchemaText("A", FALSE)>>), "", Undefined),
                  Arr(<<InvalidParagraph>>)) }

\* blocksToHtml(blocks) of the schema-based converter is called.
SchemaInit ==
    /\ sBlocks \in SeqUpTo(SchemaBlocks, MaxSchemaBlocks)
    /\ sIdx = 1
    /\ sTree = <<>>
    /\ sHtml = <<>>
    /\ sError = NoError
    /\ sPc = "map"

\* Line 542: one callback of blocks.map; an exception leaves the call.
SchemaMapCallback ==
    /\ sPc = "map"
    /\ sIdx <= Len(sBlocks)
    /\ LET node == BlockToHastTree(sBlocks[sIdx]) IN
       IF node.error # NoError
       THEN /\ sError' = node.error
            /\ sPc' = "thrown"
            /\ UNCHANGED <<sIdx, sTree>>
       ELSE /\ sTree' = sTree \o node.nodes
            /\ sIdx' = sIdx + 1
            /\ UNCHANGED <<sError, sPc>>
    /\ UNCHANGED <<sBlocks, sHtml>>

\* Lines 544-545: the root serializes as its children.
SchemaToHtml ==
    /\ sPc = "map"
    /\ sIdx > Len(sBlocks)
    /\ sHtml' = AllToHtml(sTree)
    /\ sPc' = "done"
    /\ UNCHANGED <<sBlocks, sIdx, sTree, sError>>

----------------------------------------------------------------------------
(* fetch of the schema-based converter, src/src/converter.ts lines 555-579. *)
(* Block ids are numbers: RootId is the block fetch is called on, 1..n its  *)
(* children in the remote's order, GrandchildId a child of block 1.  The    *)
(* remote lists children in pages; a call resumes when its client call      *)
(* completes, and runs up to its next await.                                *)

RootId == 0
GrandchildId == MaxChildren + 1
FetchIds == 0..GrandchildId

\* The kind-specific object of a block as the remote holds it.
RemotePayload(id) == [data |-> id, children |-> Undefined]

\* The children of a block in pages of pageSize, from the k-th on.
RECURSIVE PagesFrom(_, _, _)
PagesFrom(ids, k, pageSize) ==
    IF k > Len(ids) THEN <<>>
    ELSE <<SubSeq(ids, k, IF k + pageSize - 1 < Len(ids)
                          THEN k + pageSize - 1 ELSE Len(ids))>>
             \o PagesFrom(ids, k + pageSize, pageSize)

RemoteBlock(type, has_children, pages, fails) ==
    [type |-> type, has_children |-> has_children, pages |-> pages,
     fails |-> fails]

\* The calls that fail, by block: for at most two blocks the retrieve call
\* or the list call.
Failures ==
    {failure \in [FetchIds -> {"none", "retrieve", "list"}] :
        Cardinality({id \in FetchIds : failure[id] # "none"}) <= 2}

\* The shapes of the root: n children in pages of pageSize; a root with
\* children has has_children set.
RootShapes ==
    {shape \in [n : 0..MaxChildren, pageSize : 1..MaxChildren,
                hasChildren : BOOLEAN] :
        /\ shape.n > 0 => shape.hasChildren
        /\ shape.n = 0 => shape.pageSize = 1}

\* The remotes: the root of one of three kinds, block 1 a paragraph or a
\* toggle with or without a child.
Remotes ==
    {[id \in FetchIds |->
        CASE id = RootId ->
                 RemoteBlock(rootType, shape.hasChildren,
                             PagesFrom([k \in 1..shape.n |-> k], 1,
                                       shape.pageSize),
                             failure[id])
          [] id = 1 ->
                 RemoteBlock(firstType, nested,
                             IF nested THEN <<<<GrandchildId>>>> ELSE <<>>,
                             failure[id])
          [] OTHER ->
                 RemoteBlock("paragraph", FALSE, <<>>, failure[id])] :
        rootType \in {"paragraph", "table", "toggle"},
        shape \in RootShapes,
        firstType \in {"paragraph", "toggle"},
        nested \in BOOLEAN,
        failure \in Failures}

\* The block a retrieve call returns.
Retrieved(id, remote) ==
    [id |-> id, type |-> remote.type, has_children |-> remote.has_children,
     payload |-> RemotePayload(id), children |-> Undefined]

\* The response of children.list without a cursor: the first page.
ListResults(remote) ==
    IF remote.pages = <<>> THEN <<>> ELSE remote.pages[1]

NoBlock == Retrieved(RootId, RemoteBlock("", FALSE, <<>>, "none"))
NoFailure == [call |-> "none", id |-> RootId]

IdleFetch ==
    [status |-> "idle", block |-> NoBlock, results |-> <<>>,
     error |-> NoFailure, order |-> 0]

\* The rank of the next call to settle among the calls of fetch.
NextOrder(fs) ==
    Cardinality({c \in FetchIds :
                    fs[c].status \in {"resolved", "rejected"}}) + 1

\* Lines 564-576 with the children stored in both fields.
AttachKeepGeneric(block, children) ==
    IF block.type \in {"table", "toggle"}
    THEN [block EXCEPT !.payload.children = Arr(children),
                       !.children = Arr(children)]
    ELSE [block EXCEPT !.children = Arr(children)]

\* Lines 564-576: block.children = the fetched children; a table or a
\* toggle moves them to its kind-specific object and deletes the field.
Attach(block, children) ==
    IF block.type \in {"table", "toggle"}
    THEN [block EXCEPT !.payload.children = Arr(children),
                       !.children = Undefined]
    ELSE [block EXCEPT !.children = Arr(children)]

\* The values Promise.all resolves to, in the order of completion.
ResolvedInCompletionOrder(fs, results) ==
    [k \in 1..Len(results) |->
        fs[CHOOSE c \in {results[j] : j \in 1..Len(results)} :
              Cardinality({d \in {results[j] : j \in 1..Len(results)} :
                              fs[d].order < fs[c].order}) = k - 1].block]

\* The values Promise.all resolves to: the value of the k-th promise at
\* index k (lines 564-568).
ResolvedChildren(fs, results) ==
    [k \in 1..Len(results) |-> fs[results[k]].block]

\* The parent waits for every child to settle and returns with the
\* children that resolved.
RECURSIVE SettleAllSettled(_, _)
SettleAllSettled(fs, id) ==
    LET awaiting == {p \in FetchIds :
                        /\ fs[p].status = "children"
                        /\ \E k \in 1..Len(fs[p].results) :
                               fs[p].results[k] = id}
    IN  IF awaiting = {} THEN fs
        ELSE IF \A k \in 1..Len(fs[CHOOSE p \in awaiting : TRUE].results) :
                    fs[fs[CHOOSE p \in awaiting : TRUE].results[k]].status
                        \in {"resolved", "rejected"}
        THEN SettleAllSettled(
                 [fs EXCEPT ![CHOOSE p \in awaiting : TRUE] =
                     [@ EXCEPT !.status = "resolved",
                               !.order = NextOrder(fs),
                               !.block = Attach(@, ResolvedChildren(fs,
                                   SelectSeq(fs[CHOOSE p \in awaiting : TRUE].results,
                                             LAMBDA c : fs[c].status = "resolved")))]],
                 CHOOSE p \in awaiting : TRUE)
        ELSE fs

\* What follows, before the next client call completes, from the call of
\* fetch(id) having settled: the Promise.all its parent awaits rejects on
\* the first rejection and resolves once every child has resolved, and the
\* parent settles in turn.
RECURSIVE Settle(_, _)
Settle(fs, id) ==
    LET awaiting == {p \in FetchIds :
                        /\ fs[p].status = "children"
                        /\ \E k \in 1..Len(fs[p].results) :
                               fs[p].results[k] = id}
    IN  IF awaiting = {} THEN fs
        ELSE IF fs[id].status = "rejected"
        THEN Settle([fs EXCEPT ![CHOOSE p \in awaiting : TRUE] =
                         [@ EXCEPT !.status = "rejected",
                                   !.error = fs[id].error,
                                   !.order = NextOrder(fs)]],
                    CHOOSE p \in awaiting : TRUE)
        ELSE IF \A k \in 1..Len(fs[CHOOSE p \in awaiting : TRUE].results) :
                    fs[fs[CHOOSE p \in awaiting : TRUE].results[k]].status
                        = "resolved"
        THEN Settle([fs EXCEPT ![CHOOSE p \in awaiting : TRUE] =
                         [@ EXCEPT !.status = "resolved",
                                   !.order = NextOrder(fs),
                                   !.block = Attach(@, ResolvedChildren(fs,
                                                 fs[CHOOSE p \in awaiting : TRUE].results))]],
                    CHOOSE p \in awaiting : TRUE)
        ELSE fs

FetchInit ==
    /\ notion \in Remotes
    /\ fetches = [id \in FetchIds |-> IdleFetch]
    /\ fLog = <<>>

\* The caller calls fetch(RootId): line 556 issues the retrieve call.
CallFetch ==
    /\ fetches[RootId].status = "idle"
    /\ fetches' = [fetches EXCEPT ![RootId].status = "retrieve"]
    /\ UNCHANGED <<notion, fLog>>

\* Lines 556-561 and 578: the retrieve call of fetch(id) completes.  The
\* call rejects, returns the block as it is, or issues the list call.
RetrieveCompletes(id) ==
    /\ fetches[id].status = "retrieve"
    /\ IF notion[id].fails = "retrieve"
       THEN /\ fetches' = Settle([fetches EXCEPT
                                     ![id].status = "rejected",
                                     ![id].order = NextOrder(fetches),
                                     ![id].error = [call |-> "retrieve",
                                                    id |-> id]], id)
            /\ fLog' = Append(fLog, [call |-> "retrieve", id |-> id,
                                     ok |-> FALSE])
       ELSE IF notion[id].has_children
       THEN /\ fetches' = [fetches EXCEPT
                              ![id].status = "list",
                              ![id].block = Retrieved(id, notion[id])]
            /\ fLog' = Append(fLog, [call |-> "retrieve", id |-> id,
                                     ok |-> TRUE])
       ELSE /\ fetches' = Settle([fetches EXCEPT
                                     ![id].status = "resolved",
                                     ![id].order = NextOrder(fetches),
                                     ![id].block = Retrieved(id, notion[id])],
                                 id)
            /\ fLog' = Append(fLog, [call |-> "retrieve", id |-> id,
                                     ok |-> TRUE])
    /\ UNCHANGED notion

\* Lines 561-578: the list call of fetch(id) completes.  The call rejects,
\* or calls fetch on every listed child at once; with no child listed it
\* attaches the empty list and returns.
ListCompletes(id) ==
    /\ fetches[id].status = "list"
    /\ IF notion[id].fails = "list"
       THEN /\ fetches' = Settle([fetches EXCEPT
                                     ![id].status = "rejected",
                                     ![id].order = NextOrder(fetches),
                                     ![id].error = [call |-> "list",
                                                    id |-> id]], id)
            /\ fLog' = Append(fLog, [call |-> "list", id |-> id, ok |-> FALSE])
       ELSE IF ListResults(notion[id]) = <<>>
       THEN /\ fetches' = Settle([fetches EXCEPT
                                     ![id].status = "resolved",
                                     ![id].order = NextOrder(fetches),
                                     ![id].block = Attach(@, <<>>)], id)
            /\ fLog' = Append(fLog, [call |-> "list", id |-> id, ok |-> TRUE])
       ELSE /\ fetches' =
                [c \in FetchIds |->
                    IF c = id
                    THEN [fetches[id] EXCEPT
                             !.status = "children",
                             !.results = ListResults(notion[id])]
                    ELSE IF \E k \in 1..Len(ListResults(notion[id])) :
                                ListResults(notion[id])[k] = c
                    THEN [fetches[c] EXCEPT !.status = "retrieve"]
                    ELSE fetches[c]]
            /\ fLog' = Append(fLog, [call |-> "list", id |-> id, ok |-> TRUE])
    /\ UNCHANGED notion

FetchIdle ==
    /\ notion = [id \in FetchIds |-> RemoteBlock("", FALSE, <<>>, "none")]
    /\ fetches = [id \in FetchIds |-> IdleFetch]
    /\ fLog = <<>>

----------------------------------------------------------------------------
(* NotionDatabaseManager.process, src/src/database.ts: the earlier revision *)
(* at lines 52-133, the later one at lines 234-303.  The query results are  *)
(* pages 1..n; the schema accepts the properties of a page that has a       *)
(* title; a page has content that is fetched and rendered, or no content,   *)
(* or its fetch rejects, or the renderer throws on its content.             *)

PageId(k) == "page-" \o ToString(k)

Page(k, hasTitle, content) ==
    [id |-> PageId(k),
     properties |-> [hasTitle |-> hasTitle, title |-> "Title " \o ToString(k)],
     content |-> content]

\* The query results: up to MaxEntries pages.
Responses ==
    UNION {{[k \in 1..n |-> Page(k, valid[k], content[k])] :
               valid \in [1..n -> BOOLEAN],
               content \in [1..n -> {"ok", "no children", "fetch rejects",
                                     "render throws"}]} :
           n \in 0..MaxEntries}

\* this.schema.parse / safeParse of the properties of a page.
SchemaAccepts(properties) == properties.hasTitle

\* options.slugger of the parsed properties.
Slugger(properties) == "slug of " \o properties.title

\* The HTML blocksToHtml returns for the content of a page; "" for an
\* empty list of blocks.
ContentHtml(page) ==
    IF page.content = "no children" THEN <<>> ELSE <<"<p>", page.id, "</p>">>

\* Lines 92 and 273-274: the blocks handed to blocksToHtml.  The earlier
\* revision hands over the list fetchBlockChildren resolves to, empty for
\* a page without content; the later one hands over page.children of the
\* block fetch resolves to, a field fetch (converter.ts lines 560-578)
\* sets only if has_children is set.
PageChildren(rev, page) ==
    IF page.content = "no children"
    THEN (IF rev = "earlier" THEN Arr(<<>>) ELSE Undefined)
    ELSE Arr(<<page.id>>)

\* Lines 94 and 274: blocksToHtml on these blocks.  blocks.map on an
\* undefined list (converter.ts line 542) is a TypeError.
RenderPage(page, children) ==
    IF ~children.defined \/ page.content = "render throws" THEN Thrown
    ELSE Ok(ContentHtml(page))

\* The content callback of a page throws.
ContentFails(rev, page) ==
    \/ page.content = "fetch rejects"
    \/ RenderPage(page, PageChildren(rev, page)).thrown

\* The message of the error a failed content fetch or render throws.
OriginalMessage(page) ==
    CASE page.content = "fetch rejects" -> "Network timeout"
      [] page.content = "no children" ->
             "Cannot read properties of undefined (reading 'map')"
      [] OTHER -> "Failed to parse block"

\* Lines 72-79 and 248-260: the message of the error thrown for a page the
\* schema rejects.
SchemaMessage(rev, id) ==
    IF rev = "earlier"
    THEN <<"Failed to parse schema for page ID ", id, ".",
           " Validation issues: ", "[issues]">>
    ELSE <<"Failed to parse schema for page ID ", id, ".  Original error: ",
           "Error: ", "Failed to parse schema for page ID: ", id, "\n",
           "[explainZodError]">>

\* Lines 97-102 and 277-283: the message of the error thrown for a page
\* whose content fetch or render failed.
ContentMessage(page) ==
    <<"Failed to process content for entry ID ", page.id, ".",
      " Original error: ", OriginalMessage(page)>>

NoMessage == <<>>

\* The entry of a map, or the map extended by it.
MapSet(map, key, value) ==
    [k \in DOMAIN map \cup {key} |-> IF k = key THEN value ELSE map[k]]

\* The schema loop that leaves out a page the schema rejects.
RECURSIVE SchemaPhaseSkipInvalid(_, _, _, _)
SchemaPhaseSkipInvalid(results, k, sl, en) ==
    IF k > Len(results) THEN [failed |-> 0, slugs |-> sl, entries |-> en]
    ELSE IF ~SchemaAccepts(results[k].properties)
    THEN SchemaPhaseSkipInvalid(results, k + 1, sl, en)
    ELSE SchemaPhaseSkipInvalid(
             results, k + 1,
             MapSet(sl, results[k].id, Slugger(results[k].properties)),
             MapSet(en, results[k].id,
                    [properties |-> results[k].properties,
                     slug |-> Slugger(results[k].properties),
                     content |-> <<>>]))

\* Lines 61-86 and 243-267: the schema loop from the k-th result on.  It
\* stops at the first page the schema rejects; the pages before it are in
\* both maps by then.
RECURSIVE SchemaPhase(_, _, _, _)
SchemaPhase(results, k, sl, en) ==
    IF k > Len(results) THEN [failed |-> 0, slugs |-> sl, entries |-> en]
    ELSE IF ~SchemaAccepts(results[k].properties)
    THEN [failed |-> k, slugs |-> sl, entries |-> en]
    ELSE SchemaPhase(
             results, k + 1,
             MapSet(sl, results[k].id, Slugger(results[k].properties)),
             MapSet(en, results[k].id,
                    [properties |-> results[k].properties,
                     slug |-> Slugger(results[k].properties),
                     content |-> <<>>]))

\* The contents stored in entries built anew from the properties the call
\* itself parsed.
RECURSIVE StoreContentsRebuilt(_, _, _)
StoreContentsRebuilt(results, k, en) ==
    IF k > Len(results) THEN en
    ELSE StoreContentsRebuilt(
             results, k + 1,
             MapSet(en, results[k].id,
                    [properties |-> results[k].properties,
                     slug |-> Slugger(results[k].properties),
                     content |-> ContentHtml(results[k])]))

\* Lines 115-127 and 294-300: the contents are stored in the entries.
RECURSIVE StoreContents(_, _, _)
StoreContents(results, k, en) ==
    IF k > Len(results) THEN en
    ELSE StoreContents(
             results, k + 1,
             [en EXCEPT ![results[k].id].content = ContentHtml(results[k])])

ProcessInit ==
    /\ revision \in {"earlier", "later"}
    /\ response \in Responses
    /\ slugs = <<>>
    /\ entries = <<>>
    /\ contents = [k \in 1..Len(response) |-> "not started"]
    /\ pPc = "idle"
    /\ pError = NoMessage

\* Lines 56-59 and 238-241: process is called and issues the query.
CallProcess ==
    /\ pPc = "idle"
    /\ pPc' = "query"
    /\ UNCHANGED <<revision, response, slugs, entries, contents, pError>>

\* Lines 61-113 and 243-292: the query returns.  The schema loop runs; if it
\* throws, process rejects; otherwise the content callback is called on
\* every result, each call issuing its fetch, and process awaits them all.
\* With no result there is nothing to await and process returns.
QueryCompletes ==
    /\ pPc = "query"
    /\ slugs' = SchemaPhase(response, 1, slugs, entries).slugs
    /\ entries' = SchemaPhase(response, 1, slugs, entries).entries
    /\ IF SchemaPhase(response, 1, slugs, entries).failed # 0
       THEN /\ pPc' = "rejected"
            /\ pError' = SchemaMessage(revision,
                   response[SchemaPhase(response, 1, slugs, entries).failed].id)
            /\ UNCHANGED contents
       ELSE /\ pPc' = IF response = <<>> THEN "resolved" ELSE "content"
            /\ contents' = [k \in 1..Len(response) |-> "pending"]
            /\ UNCHANGED pError
    /\ UNCHANGED <<revision, response>>

\* Lines 91-113 and 272-292: the fetch of the k-th page settles and the
\* callback renders the page or throws.  The first callback to throw
\* rejects process; when the last one returns, process stores the contents
\* (lines 115-132 and 294-302) and returns.
ContentCompletes(k) ==
    /\ k \in 1..Len(response)
    /\ contents[k] = "pending"
    /\ IF ContentFails(revision, response[k])
       THEN /\ contents' = [contents EXCEPT ![k] = "rejected"]
            /\ IF pPc = "content"
               THEN /\ pPc' = "rejected"
                    /\ pError' = ContentMessage(response[k])
               ELSE UNCHANGED <<pPc, pError>>
            /\ UNCHANGED entries
       ELSE /\ contents' = [contents EXCEPT ![k] = "resolved"]
            /\ IF pPc = "content"
                  /\ \A j \in 1..Len(response) :
                         j # k => contents[j] = "resolved"
               THEN /\ pPc' = "resolved"
                    /\ entries' = StoreContents(response, 1, entries)
               ELSE UNCHANGED <<pPc, entries>>
            /\ UNCHANGED pError
    /\ UNCHANGED <<revision, response, slugs>>

ProcessIdle ==
    /\ revision = "later"
    /\ response = <<>>
    /\ slugs = <<>>
    /\ entries = <<>>
    /\ contents = <<>>
    /\ pPc = "idle"
    /\ pError = NoMessage

----------------------------------------------------------------------------
(* The pagination loop of fetchBlockChildren, src/src/converter.ts lines    *)
(* 41-53.  A cursor is the number of the page it points to; the remote      *)
(* answers a list call with one page, has_more and next_cursor.             *)

UndefinedCursor == 0
NullCursor == -1

\* The remotes: up to MaxListed children in pages of pageSize; on the
\* pages of nullAfter the remote answers has_more = true with next_cursor
\* = null.
Listings ==
    UNION {{[pages |-> PagesFrom([k \in 1..n |-> k], 1, pageSize),
             nullAfter |-> nullAfter] :
               nullAfter \in SUBSET (1..(Len(PagesFrom([k \in 1..n |-> k], 1,
                                                       pageSize)) - 1))} :
           n \in 0..MaxListed, pageSize \in 1..MaxListed}

\* The response of blocks.children.list({block_id, start_cursor}); an
\* undefined start_cursor asks for the first page.
ListResponse(remote, start_cursor) ==
    LET page == IF start_cursor = UndefinedCursor THEN 1 ELSE start_cursor IN
    IF remote.pages = <<>>
    THEN [results |-> <<>>, has_more |-> FALSE, next_cursor |-> NullCursor]
    ELSE [results |-> remote.pages[page],
          has_more |-> page < Len(remote.pages),
          next_cursor |-> IF page < Len(remote.pages)
                              /\ page \notin remote.nullAfter
                          THEN page + 1 ELSE NullCursor]

\* Line 52: cursor = next_cursor ?? undefined.
NextCursor(current, next_cursor) ==
    IF next_cursor = NullCursor THEN UndefinedCursor ELSE next_cursor

ListInit ==
    /\ listing \in Listings
    /\ cursor = UndefinedCursor
    /\ fetched = <<>>
    /\ requests = <<>>
    /\ lPc = "call"

\* Lines 42-49: fetchBlockChildren is called and issues the first list call.
CallFetchBlockChildren ==
    /\ lPc = "call"
    /\ requests' = <<cursor>>
    /\ lPc' = "list"
    /\ UNCHANGED <<listing, cursor, fetched>>

\* Lines 50-51: a list call returns its last page; the loop is left.
ListReturnsLastPage ==
    /\ lPc = "list"
    /\ ~ListResponse(listing, cursor).has_more
    /\ fetched' = fetched \o ListResponse(listing, cursor).results
    /\ lPc' = "done"
    /\ UNCHANGED <<listing, cursor, requests>>

\* Lines 50-52 and 45-49: a list call returns with has_more set; the loop
\* sets the cursor and issues the next list call.
ListReturnsMore ==
    /\ lPc = "list"
    /\ ListResponse(listing, cursor).has_more
    /\ Len(requests) < MaxRequests
    /\ fetched' = fetched \o ListResponse(listing, cursor).results
    /\ cursor' = NextCursor(cursor, ListResponse(listing, cursor).next_cursor)
    /\ requests' = Append(requests,
           NextCursor(cursor, ListResponse(listing, cursor).next_cursor))
    /\ UNCHANGED <<listing, lPc>>

ListIdle ==
    /\ listing = [pages |-> <<>>, nullAfter |-> {}]
    /\ cursor = UndefinedCursor
    /\ fetched = <<>>
    /\ requests = <<>>
    /\ lPc = "idle"

----------------------------------------------------------------------------
(* The loop of the table transform, src/test/mocks.ts lines 458-467, one    *)
(* iteration at a time.  The schema (lines 447-456) accepts every number    *)
(* as table_width; the children are the rows 1..n.                          *)

\* The payloads the schema accepts.
TablePayloads ==
    {[table_width |-> w, children |-> [k \in 1..n |-> k]] :
        w \in -1..MaxTableWidth, n \in 0..MaxTableRows}

\* An index of Array.prototype.slice: a negative one counts from the end,
\* and the result is kept within 0..Len.
SliceIndex(len, index) ==
    IF index < 0
    THEN (IF len + index < 0 THEN 0 ELSE len + index)
    ELSE (IF index > len THEN len ELSE index)

\* Array.prototype.slice(start, end).
Slice(seq, start, end) ==
    IF SliceIndex(Len(seq), start) >= SliceIndex(Len(seq), end) THEN <<>>
    ELSE SubSeq(seq, SliceIndex(Len(seq), start) + 1,
                SliceIndex(Len(seq), end))

TableLoopInit ==
    /\ table \in TablePayloads
    /\ tI = 0
    /\ tRows = <<>>
    /\ tPc = "loop"

\* Lines 461-463: one iteration of the loop.
TableLoopBody ==
    /\ tPc = "loop"
    /\ tI < Len(table.children)
    /\ Len(tRows) < MaxIterations
    /\ tRows' = Append(tRows, Slice(table.children, tI, tI + table.table_width))
    /\ tI' = tI + table.table_width
    /\ UNCHANGED <<table, tPc>>

\* Lines 461 and 464-466: the loop condition fails and the node is built.
TableLoopExit ==
    /\ tPc = "loop"
    /\ ~(tI < Len(table.children))
    /\ tPc' = "done"
    /\ UNCHANGED <<table, tI, tRows>>

TableLoopIdle ==
    /\ table = [table_width |-> 1, children |-> <<>>]
    /\ tI = 0
    /\ tRows = <<>>
    /\ tPc = "idle"

----------------------------------------------------------------------------
(* Several calls of process on one manager, src/src/database.ts lines       *)
(* 52-133 and 234-303.  The calls share this.slugs and this.entries; a call *)
(* runs from one await to the next without interruption, and the calls      *)
(* interleave at their awaits.                                              *)

\* What a query returns for page k: nothing, the page, the page under a new
\* title, the page with a failing content fetch, or the page with
\* properties the schema rejects.
QueryVariants == {"absent", "ok", "renamed", "fails", "invalid"}

ManagerPage(k, variant) ==
    CASE variant = "renamed" ->
             [Page(k, TRUE, "ok") EXCEPT
                 !.properties.title = "Renamed " \o ToString(k)]
      [] variant = "fails" -> Page(k, TRUE, "fetch rejects")
      [] variant = "invalid" -> Page(k, FALSE, "ok")
      [] OTHER -> Page(k, TRUE, "ok")

\* The pages k..MaxPages a query returns under the choice `variants`.
RECURSIVE PresentFrom(_, _)
PresentFrom(variants, k) ==
    IF k > MaxPages THEN <<>>
    ELSE (IF variants[k] = "absent" THEN <<>>
          ELSE <<ManagerPage(k, variants[k])>>)
             \o PresentFrom(variants, k + 1)

\* The results of a query, under any filter and at any time.
ManagerResponses ==
    {PresentFrom(variants, 1) : variants \in [1..MaxPages -> QueryVariants]}

IdleCall ==
    [pc |-> "idle", response |-> <<>>, contents |-> <<>>, returned |-> <<>>]

\* The writes of this.slugs of one schema loop: one per accepted page.
SlugSets(c, phase, results) ==
    [j \in 1..(IF phase.failed = 0 THEN Len(results) ELSE phase.failed - 1)
        |-> [op |-> "set", call |-> c]]

\* Lines 94 and 274: blocksToHtml of the earlier revision is handed
\* this.slugs and reads it; that of the later revision is not.
SlugReads(c, rev) ==
    IF rev = "earlier" THEN <<[op |-> "read", call |-> c]>> ELSE <<>>

\* The call after its schema loop: rejected, or awaiting the contents, or
\* with no page to await returned.
AfterSchemaPhase(call, phase, results) ==
    IF phase.failed # 0
    THEN [call EXCEPT !.pc = "rejected", !.response = results,
                      !.contents = [k \in 1..Len(results) |-> "not started"]]
    ELSE IF results = <<>>
    THEN [call EXCEPT !.pc = "resolved", !.response = results,
                      !.returned = phase.entries]
    ELSE [call EXCEPT !.pc = "content", !.response = results,
                      !.contents = [k \in 1..Len(results) |-> "pending"]]

ManagerInit ==
    /\ revision \in {"earlier", "later"}
    /\ slugs = <<>>
    /\ entries = <<>>
    /\ response = <<>>
    /\ contents = <<>>
    /\ pPc = "idle"
    /\ pError = NoMessage
    /\ calls = [c \in 1..MaxCalls |-> IdleCall]
    /\ slugOps = <<>>

\* Lines 56-59 and 238-241: the c-th call of process issues its query.
ManagerCall(c) ==
    /\ calls[c].pc = "idle"
    /\ c > 1 => calls[c - 1].pc # "idle"
    /\ calls' = [calls EXCEPT ![c].pc = "query"]
    /\ UNCHANGED <<revision, slugs, entries, slugOps>>

\* Lines 61-113 and 243-292: the query of the c-th call returns and its
\* schema loop runs on this.slugs and this.entries.
ManagerQueryCompletes(c) ==
    /\ calls[c].pc = "query"
    /\ \E results \in ManagerResponses :
           /\ slugs' = SchemaPhase(results, 1, slugs, entries).slugs
           /\ entries' = SchemaPhase(results, 1, slugs, entries).entries
           /\ slugOps' = slugOps
                  \o SlugSets(c, SchemaPhase(results, 1, slugs, entries),
                              results)
           /\ calls' = [calls EXCEPT ![c] =
                  AfterSchemaPhase(@, SchemaPhase(results, 1, slugs, entries),
                                   results)]
    /\ UNCHANGED revision

\* Lines 91-132 and 272-302: the content fetch of the k-th page of the
\* c-th call settles; the callback renders or throws.  The first callback
\* to throw rejects the call; when the last one returns the call stores
\* the contents in this.entries and returns this.entries.
ManagerContentCompletes(c, k) ==
    /\ k \in 1..Len(calls[c].contents)
    /\ calls[c].contents[k] = "pending"
    /\ IF ContentFails(revision, calls[c].response[k])
       THEN /\ calls' = [calls EXCEPT
                            ![c].contents[k] = "rejected",
                            ![c].pc = IF @ = "content" THEN "rejected" ELSE @]
            /\ UNCHANGED <<entries, slugOps>>
       ELSE /\ slugOps' = slugOps \o SlugReads(c, revision)
            /\ IF calls[c].pc = "content"
                  /\ \A j \in 1..Len(calls[c].contents) :
                         j # k => calls[c].contents[j] = "resolved"
               THEN /\ entries' = StoreContents(calls[c].response, 1, entries)
                    /\ calls' = [calls EXCEPT
                           ![c].contents[k] = "resolved",
                           ![c].pc = "resolved",
                           ![c].returned =
                               StoreContents(calls[c].response, 1, entries)]
               ELSE /\ calls' = [calls EXCEPT ![c].contents[k] = "resolved"]
                    /\ UNCHANGED entries
    /\ UNCHANGED <<revision, slugs>>

ManagerIdle ==
    /\ calls = [c \in 1..MaxCalls |-> IdleCall]
    /\ slugOps = <<>>

----------------------------------------------------------------------------
(* Specifications. *)

ComposeIdle ==
    /\ blocks = <<>>
    /\ pageIdToSlugMap = EmptyMap
    /\ i = 1
    /\ html = <<>>
    /\ listType = "null"
    /\ pc = "idle"

RichIdle ==
    /\ richTextArray = Undefined
    /\ rtMap = EmptyMap
    /\ rtIdx = 1
    /\ rtParts = <<>>
    /\ rtOut = <<>>
    /\ rtPc = "idle"

SchemaIdle ==
    /\ sBlocks = <<>>
    /\ sIdx = 1
    /\ sTree = <<>>
    /\ sHtml = <<>>
    /\ sError = NoError
    /\ sPc = "idle"

BlockIdle ==
    /\ bBlock = UntypedBlock
    /\ bResult = Ok(<<>>)
    /\ bPc = "idle"

\* The legacy composer.
Init == ComposeInit /\ RichIdle /\ SchemaIdle /\ BlockIdle /\ FetchIdle
        /\ ProcessIdle
        /\ ListIdle
        /\ TableLoopIdle
        /\ ManagerIdle

Next ==
    \/ CallBlocksToHtml /\ UNCHANGED <<richVars, schemaVars, blockVars, fetchVars, processVars, listVars, tableVars, managerVars>>
    \/ LoopContinue /\ UNCHANGED <<richVars, schemaVars, blockVars, fetchVars, processVars, listVars, tableVars, managerVars>>
    \/ LoopOpenClose /\ UNCHANGED <<richVars, schemaVars, blockVars, fetchVars, processVars, listVars, tableVars, managerVars>>
    \/ LoopAppend /\ UNCHANGED <<richVars, schemaVars, blockVars, fetchVars, processVars, listVars, tableVars, managerVars>>
    \/ LoopLookAhead /\ UNCHANGED <<richVars, schemaVars, blockVars, fetchVars, processVars, listVars, tableVars, managerVars>>
    \/ LoopExit /\ UNCHANGED <<richVars, schemaVars, blockVars, fetchVars, processVars, listVars, tableVars, managerVars>>

Spec == Init /\ [][Next]_vars

\* The legacy inline renderer.
InitRichText ==
    RichInit /\ ComposeIdle /\ SchemaIdle /\ BlockIdle /\ FetchIdle
        /\ ProcessIdle
        /\ ListIdle
        /\ TableLoopIdle
        /\ ManagerIdle

NextRichText ==
    \/ RichTextEarlyReturn /\ UNCHANGED <<composeVars, schemaVars, blockVars, fetchVars, processVars, listVars, tableVars, managerVars>>
    \/ RichTextMapCallback /\ UNCHANGED <<composeVars, schemaVars, blockVars, fetchVars, processVars, listVars, tableVars, managerVars>>
    \/ RichTextJoin /\ UNCHANGED <<composeVars, schemaVars, blockVars, fetchVars, processVars, listVars, tableVars, managerVars>>

SpecRichText == InitRichText /\ [][NextRichText]_vars

\* The schema-based converter.
InitSchema ==
    SchemaInit /\ ComposeIdle /\ RichIdle /\ BlockIdle /\ FetchIdle
        /\ ProcessIdle
        /\ ListIdle
        /\ TableLoopIdle
        /\ ManagerIdle

NextSchema ==
    \/ SchemaMapCallback /\ UNCHANGED <<composeVars, richVars, blockVars, fetchVars, processVars, listVars, tableVars, managerVars>>
    \/ SchemaToHtml /\ UNCHANGED <<composeVars, richVars, blockVars, fetchVars, processVars, listVars, tableVars, managerVars>>

SpecSchema == InitSchema /\ [][NextSchema]_vars

\* The legacy block renderer.
InitBlock ==
    BlockInit /\ ComposeIdle /\ RichIdle /\ SchemaIdle /\ FetchIdle
        /\ ProcessIdle
        /\ ListIdle
        /\ TableLoopIdle
        /\ ManagerIdle

NextBlock ==
    CallBlockToHtml
        /\ UNCHANGED <<composeVars, richVars, schemaVars, fetchVars, processVars, listVars, tableVars, managerVars>>

SpecBlock == InitBlock /\ [][NextBlock]_vars

\* fetch of the schema-based converter.
InitFetch ==
    FetchInit /\ ComposeIdle /\ RichIdle /\ SchemaIdle /\ BlockIdle
        /\ ProcessIdle
        /\ ListIdle
        /\ TableLoopIdle
        /\ ManagerIdle

NextFetch ==
    \/ CallFetch /\ UNCHANGED <<composeVars, richVars, schemaVars, blockVars, processVars, listVars, tableVars, managerVars>>
    \/ \E id \in FetchIds :
           RetrieveCompletes(id)
               /\ UNCHANGED <<composeVars, richVars, schemaVars, blockVars, processVars, listVars, tableVars, managerVars>>
    \/ \E id \in FetchIds :
           ListCompletes(id)
               /\ UNCHANGED <<composeVars, richVars, schemaVars, blockVars, processVars, listVars, tableVars, managerVars>>

SpecFetch == InitFetch /\ [][NextFetch]_vars

\* process of the database manager.
InitProcess ==
    ProcessInit /\ ComposeIdle /\ RichIdle /\ SchemaIdle /\ BlockIdle
        /\ FetchIdle
        /\ ListIdle
        /\ TableLoopIdle
        /\ ManagerIdle

NextProcess ==
    \/ CallProcess
           /\ UNCHANGED <<composeVars, richVars, schemaVars, blockVars, fetchVars, listVars, tableVars, managerVars>>
    \/ QueryCompletes
           /\ UNCHANGED <<composeVars, richVars, schemaVars, blockVars, fetchVars, listVars, tableVars, managerVars>>
    \/ \E k \in 1..MaxEntries :
           ContentCompletes(k)
               /\ UNCHANGED <<composeVars, richVars, schemaVars, blockVars, fetchVars, listVars, tableVars, managerVars>>

SpecProcess == InitProcess /\ [][NextProcess]_vars

\* The pagination loop of fetchBlockChildren.
InitList ==
    ListInit /\ ComposeIdle /\ RichIdle /\ SchemaIdle /\ BlockIdle
        /\ FetchIdle /\ ProcessIdle
        /\ TableLoopIdle
        /\ ManagerIdle

OthersUnchangedByList ==
    UNCHANGED <<composeVars, richVars, schemaVars, blockVars, fetchVars,
                processVars, tableVars, managerVars>>

NextList ==
    \/ CallFetchBlockChildren /\ OthersUnchangedByList
    \/ ListReturnsLastPage /\ OthersUnchangedByList
    \/ ListReturnsMore /\ OthersUnchangedByList

SpecList == InitList /\ [][NextList]_vars

\* The loop of the table transform.
InitTableLoop ==
    TableLoopInit /\ ComposeIdle /\ RichIdle /\ SchemaIdle /\ BlockIdle
        /\ FetchIdle /\ ProcessIdle /\ ListIdle
        /\ ManagerIdle

OthersUnchangedByTableLoop ==
    UNCHANGED <<composeVars, richVars, schemaVars, blockVars, fetchVars,
                processVars, listVars, managerVars>>

NextTableLoop ==
    \/ TableLoopBody /\ OthersUnchangedByTableLoop
    \/ TableLoopExit /\ OthersUnchangedByTableLoop

SpecTableLoop == InitTableLoop /\ [][NextTableLoop]_vars

\* Several calls of process on one manager.
InitManager ==
    ManagerInit /\ ComposeIdle /\ RichIdle /\ SchemaIdle /\ BlockIdle
        /\ FetchIdle /\ ListIdle /\ TableLoopIdle

OthersUnchangedByManager ==
    UNCHANGED <<composeVars, richVars, schemaVars, blockVars, fetchVars,
                listVars, tableVars, response, contents, pPc, pError>>

NextManager ==
    \/ \E c \in 1..MaxCalls : ManagerCall(c) /\ OthersUnchangedByManager
    \/ \E c \in 1..MaxCalls :
           ManagerQueryCompletes(c) /\ OthersUnchangedByManager
    \/ \E c \in 1..MaxCalls, k \in 1..MaxPages :
           ManagerContentCompletes(c, k) /\ OthersUnchangedByManager

SpecManager == InitManager /\ [][NextManager]_vars

----------------------------------------------------------------------------
(* Reading the composed output.  The tokens of the sibling level are those *)
(* outside every element: list wrappers and the first token of each         *)
(* block's fragment.                                                        *)

OpenTokens ==
    {"<li>", "<p>", "<h1>", "<h2>", "<h3>", "<details>", "<summary>",
     "<blockquote>"}
CloseTokens ==
    {"</li>", "</p>", "</h1>", "</h2>", "</h3>", "</details>", "</summary>",
     "</blockquote>"}
WrapperTokens == {"<ul>", "</ul>", "<ol>", "</ol>"}

RECURSIVE TopFrom(_, _)
TopFrom(h, depth) ==
    IF h = <<>> THEN <<>>
    ELSE IF Head(h) \in OpenTokens
    THEN (IF depth = 0 THEN <<Head(h)>> ELSE <<>>)
             \o TopFrom(Tail(h), depth + 1)
    ELSE IF Head(h) \in CloseTokens THEN TopFrom(Tail(h), depth - 1)
    ELSE (IF depth = 0 THEN <<Head(h)>> ELSE <<>>) \o TopFrom(Tail(h), depth)

Top(h) == TopFrom(h, 0)

IsWrapper(t) == t \in WrapperTokens
IsFragmentStart(t) == t \notin WrapperTokens

\* The wrapper left open by a sequence of sibling-level tokens: "ul", "ol",
\* "null" for none, "bad" when a wrapper is opened inside another or closed
\* while it is not the open one.
RECURSIVE OpenAfter(_, _)
OpenAfter(tops, open) ==
    IF tops = <<>> THEN open
    ELSE CASE Head(tops) = "<ul>" ->
                  IF open = "null" THEN OpenAfter(Tail(tops), "ul") ELSE "bad"
           [] Head(tops) = "<ol>" ->
                  IF open = "null" THEN OpenAfter(Tail(tops), "ol") ELSE "bad"
           [] Head(tops) = "</ul>" ->
                  IF open = "ul" THEN OpenAfter(Tail(tops), "null") ELSE "bad"
           [] Head(tops) = "</ol>" ->
                  IF open = "ol" THEN OpenAfter(Tail(tops), "null") ELSE "bad"
           [] OTHER -> OpenAfter(Tail(tops), open)

OpenWrapper(h) == OpenAfter(Top(h), "null")

Count(seq, t) == Cardinality({k \in 1..Len(seq) : seq[k] = t})

\* The type of a block, "" for an object without one.
TypeOf(b) == IF b.hasType THEN b.type ELSE ""

IsPlainItem(b, type) ==
    b.hasType /\ b.type = type /\ b.payload /\ ~b.children.defined

\* N >= 1 bulleted items without children, then one block of another type.
IsBulletedRunThenOther(bs) ==
    /\ Len(bs) >= 2
    /\ \A k \in 1..(Len(bs) - 1) : IsPlainItem(bs[k], "bulleted_list_item")
    /\ bs[Len(bs)].hasType
    /\ bs[Len(bs)].type \notin ListItemTypes

\* C1: a run of N bulleted items without children followed by a non-list
\* block composes to one "<ul>", N "<li>" elements, one "</ul>" and then
\* the fragment of the non-list block.
C1_OneWrapperAroundRun ==
    (pc = "done" /\ IsBulletedRunThenOther(blocks)) =>
        LET n == Len(blocks) - 1
            last == BlockToHtml(blocks[Len(blocks)], pageIdToSlugMap).html
            tops == Top(html)
        IN  /\ Count(tops, "<ul>") = 1
            /\ Count(tops, "</ul>") = 1
            /\ Count(tops, "<ol>") = 0
            /\ Count(tops, "<li>") = n
            /\ Len(tops) >= n + 2
            /\ tops[1] = "<ul>"
            /\ \A k \in 2..(n + 1) : tops[k] = "<li>"
            /\ tops[n + 2] = "</ul>"
            /\ Len(html) >= Len(last)
            /\ SubSeq(html, Len(html) - Len(last) + 1, Len(html)) = last
            /\ html[Len(html) - Len(last)] = "</ul>"

C1_Witness ==
    /\ pc = "done"
    /\ IsBulletedRunThenOther(blocks)
    /\ Len(blocks) = MaxBlocks
    /\ blocks[Len(blocks)].type = "paragraph"

\* The spans of a block rendered, and the fragments of its children.
SpansOf(b) == RichTextToHtml(b.data.rich_text, pageIdToSlugMap).html
RECURSIVE FragmentsOf(_)
FragmentsOf(bs) ==
    IF bs = <<>> THEN <<>>
    ELSE BlockToHtml(Head(bs), pageIdToSlugMap).html \o FragmentsOf(Tail(bs))

WrapperOf(type) == IF type = "bulleted_list_item" THEN "ul" ELSE "ol"

\* C2: a list item with children is one "<li>" holding its spans and then
\* exactly one nested wrapper of its kind around the children's fragments.
C2_OneNestedWrapper ==
    (/\ pc = "done"
     /\ Len(blocks) = 1
     /\ blocks[1].hasType
     /\ blocks[1].type \in ListItemTypes
     /\ blocks[1].children.defined) =>
        LET w == WrapperOf(blocks[1].type)
        IN  html = <<"<" \o w \o ">", "<li>">> \o SpansOf(blocks[1])
                       \o <<"<" \o w \o ">">>
                       \o FragmentsOf(blocks[1].children.items)
                       \o <<"</" \o w \o ">", "</li>", "</" \o w \o ">">>

\* C3: the fragment of a block is appended with the wrapper of its kind
\* open (none for a non-list block), and the wrappers written so far never
\* overlap.
C3_FragmentUnderItsWrapper ==
    /\ OpenWrapper(html) # "bad"
    /\ pc = "append" =>
           OpenWrapper(html)
               = (CASE blocks[i].type = "bulleted_list_item" -> "ul"
                    [] blocks[i].type = "numbered_list_item" -> "ol"
                    [] OTHER -> "null")

\* A non-list block is about to be appended right after a list item, and a
\* numbered item right after a bulleted one.
C3_Witness ==
    /\ pc = "append"
    /\ i = 3
    /\ TypeOf(blocks[1]) = "bulleted_list_item"
    /\ TypeOf(blocks[2]) = "numbered_list_item"
    /\ TypeOf(blocks[3]) = "paragraph"
    /\ Top(html) = <<"<ul>", "<li>", "</ul>", "<ol>", "<li>", "</ol>">>

\* C4: when the call returns, the wrappers of the sibling level alternate
\* open and close of one kind, none is left open, and the empty list gave
\* the empty string.
C4_WrappersBalanced ==
    pc = "done" =>
        /\ OpenWrapper(html) = "null"
        /\ Len(blocks) = 0 => html = <<>>

C4_Witness ==
    /\ pc = "done"
    /\ Len(blocks) = 3
    /\ TypeOf(blocks[1]) = "bulleted_list_item"
    /\ ~blocks[2].hasType
    /\ TypeOf(blocks[3]) = "numbered_list_item"
    /\ SelectSeq(Top(html), IsWrapper) = <<"<ul>", "</ul>", "<ol>", "</ol>">>

IsUnsupported(b) == b.hasType /\ b.type = "unsupported_type"
HasType(b) == b.hasType

\* C8: a block of an unknown type renders to the comment naming its type
\* and never throws; its siblings' fragments are all emitted around it.
C8_UnsupportedIsComment ==
    /\ pc = "thrown" => ~IsUnsupported(blocks[i])
    /\ pc = "done" =>
           LET typed == SelectSeq(blocks, HasType)
               frags == SelectSeq(Top(html), IsFragmentStart)
           IN  /\ Len(frags) = Len(typed)
               /\ \A k \in 1..Len(typed) :
                      IsUnsupported(typed[k]) =>
                          frags[k] =
                            "<!-- Unsupported block type: unsupported_type -->"

C8_Witness ==
    /\ pc = "done"
    /\ Len(blocks) = 3
    /\ TypeOf(blocks[1]) = "bulleted_list_item"
    /\ IsUnsupported(blocks[2])
    /\ TypeOf(blocks[3]) = "paragraph"
    /\ html[Len(html)] = "</p>"

----------------------------------------------------------------------------
(* Reading the output of richTextToHtml. *)

IsPageMention(rt) == rt.type = "mention" /\ rt.mention.type = "page"

IsSinglePageMention(arr) ==
    arr.defined /\ Len(arr.items) = 1 /\ IsPageMention(arr.items[1])

\* C9: a page mention of X renders as the link to /posts/<slug>/ whenever
\* X is a key of the resolution table, whatever slug is stored under it,
\* as the unresolved marker carrying data-page-id="X" whenever X is absent,
\* and never throws.
C9_MentionLinkIffKey ==
    IsSinglePageMention(richTextArray) =>
        /\ rtPc # "thrown"
        /\ rtPc = "done" =>
               LET X == richTextArray.items[1].mention.id
               IN  IF X \in DOMAIN rtMap
                   THEN rtOut[1] = "<a href=\"/posts/" \o rtMap[X]
                                       \o "/\" class=\"page-mention\">"
                   ELSE rtOut[1] =
                            "<span class=\"page-mention-unresolved\" data-page-id=\""
                                \o X \o "\">"

Entities ==
    {[code |-> Amp, char |-> "&"], [code |-> Lt, char |-> "<"],
     [code |-> Gt, char |-> ">"], [code |-> Quot, char |-> "\""],
     [code |-> Apos, char |-> "'"]}

\* The one-character tokens: the text of the output, outside the tags.
CharTokens == TextChars \cup UNION {{e.code[k] : k \in 1..Len(e.code)} : e \in Entities}
IsChar(t) == t \in CharTokens

IsPrefix(p, s) == Len(p) <= Len(s) /\ SubSeq(s, 1, Len(p)) = p

\* The text an HTML parser reads from escaped text, decoding each entity
\* once; ok is FALSE for a raw < > " ' and for an & that starts no entity.
RECURSIVE Decode(_)
Decode(s) ==
    IF s = <<>> THEN [ok |-> TRUE, text |-> <<>>]
    ELSE IF Head(s) = "&" THEN
        LET starts == {e \in Entities : IsPrefix(e.code, s)} IN
        IF starts = {} THEN [ok |-> FALSE, text |-> <<>>]
        ELSE LET e == CHOOSE e \in starts : TRUE
                 rest == Decode(SubSeq(s, Len(e.code) + 1, Len(s)))
             IN  [ok |-> rest.ok, text |-> <<e.char>> \o rest.text]
    ELSE IF Head(s) \in {"<", ">", "\"", "'"}
    THEN [ok |-> FALSE, text |-> <<>>]
    ELSE LET rest == Decode(Tail(s))
         IN  [ok |-> rest.ok, text |-> <<Head(s)>> \o rest.text]

RECURSIVE PlainTextOf(_)
PlainTextOf(items) ==
    IF items = <<>> THEN <<>>
    ELSE Head(items).plain_text \o PlainTextOf(Tail(items))

AllTextSpans(arr) ==
    /\ arr.defined
    /\ \A k \in 1..Len(arr.items) :
           arr.items[k].type = "text" /\ arr.items[k].hasPlainText

\* C10: the text of rendered text spans holds no raw & < > " ', and read
\* back one entity at a time it is the plain_text again (no character is
\* escaped twice).
C10_TextEscapedOnce ==
    (rtPc = "done" /\ AllTextSpans(richTextArray)) =>
        LET read == Decode(SelectSeq(rtOut, IsChar))
        IN  /\ read.ok
            /\ read.text = PlainTextOf(richTextArray.items)

C10_Witness ==
    /\ rtPc = "done"
    /\ richTextArray = Arr(<<PlainSpan(<<"&", "<", "'">>)>>)
    /\ rtOut = Amp \o Lt \o Apos

\* The escape of one character, and of a text character by character.
EscapeChar(c) ==
    CASE c = "&" -> Amp
      [] c = "<" -> Lt
      [] c = ">" -> Gt
      [] c = "\"" -> Quot
      [] c = "'" -> Apos
      [] OTHER -> <<c>>

Escaped(text) == Flatten([k \in 1..Len(text) |-> EscapeChar(text[k])])

\* A text span with no annotation flag set, default color and no link.
IsUnstyledText(span) ==
    /\ span.type = "text"
    /\ span.hasPlainText
    /\ span.hasAnnotations => span.annotations = NoAnnotations
    /\ span.href = ""

AllUnstyledText(arr) ==
    /\ arr.defined
    /\ \A k \in 1..Len(arr.items) : IsUnstyledText(arr.items[k])

\* C11: unstyled, unlinked text spans render to their escaped plain_text,
\* concatenated in order; the empty and the absent sequence render to the
\* empty string without an error.
C11_UnstyledTextIsEscapedText ==
    /\ (rtPc = "done" /\ AllUnstyledText(richTextArray)) =>
           rtOut = Flatten([k \in 1..Len(richTextArray.items) |->
                               Escaped(richTextArray.items[k].plain_text)])
    /\ (rtPc \in {"done", "thrown"}
            /\ (~richTextArray.defined \/ richTextArray.items = <<>>)) =>
           rtPc = "done" /\ rtOut = <<>>
    /\ (rtPc = "thrown") => ~AllUnstyledText(richTextArray)

C11_Witness ==
    /\ rtPc = "done"
    /\ richTextArray = Arr(<<PlainSpan(<<"&", "a">>), PlainSpan(<<"\"", ">">>)>>)
    /\ rtOut = Amp \o <<"a">> \o Quot \o Gt

\* The wrappers a text span calls for, outermost first: the link, the
\* color, monospace, underline, strikethrough, italic, bold.
WrappersOf(span) ==
    LET an == span.annotations
        all == <<[on |-> span.href # "",
                  open |-> "<a href=\"" \o span.href \o "\" target=\"_blank\">",
                  close |-> "</a>"],
                 [on |-> an.color # "default",
                  open |-> "<span class=\"color-" \o an.color \o "\">",
                  close |-> "</span>"],
                 [on |-> an.code, open |-> "<code>", close |-> "</code>"],
                 [on |-> an.underline, open |-> "<u>", close |-> "</u>"],
                 [on |-> an.strikethrough, open |-> "<del>", close |-> "</del>"],
                 [on |-> an.italic, open |-> "<em>", close |-> "</em>"],
                 [on |-> an.bold, open |-> "<strong>", close |-> "</strong>"]>>
        IsOn(w) == w.on
    IN  SelectSeq(all, IsOn)

\* The text of the span inside its wrappers, each closed in reverse order.
StyledText(span) ==
    LET ws == WrappersOf(span)
        n == Len(ws)
    IN  [k \in 1..n |-> ws[k].open]
            \o Escaped(span.plain_text)
            \o [k \in 1..n |-> ws[n + 1 - k].close]

IsAnnotatedText(span) ==
    span.type = "text" /\ span.hasPlainText /\ span.hasAnnotations

\* C12: the fragment of every text span is its escaped text inside the
\* wrappers its flags call for, nested bold innermost, then italic,
\* strikethrough, underline, monospace, color, with the link outermost;
\* a wrapper is present exactly when its flag is set.
C12_WrappersInFixedOrder ==
    \A k \in 1..Len(rtParts) :
        IsAnnotatedText(richTextArray.items[k]) =>
            rtParts[k] = StyledText(richTextArray.items[k])

C12_Witness ==
    /\ rtPc = "done"
    /\ richTextArray =
           Arr(<<TextSpan(<<"a", "<">>,
                          [bold |-> TRUE, italic |-> TRUE,
                           strikethrough |-> TRUE, underline |-> TRUE,
                           code |-> TRUE, color |-> "red"],
                          "https://example.com")>>)
    /\ rtOut = <<"<a href=\"https://example.com\" target=\"_blank\">",
                 "<span class=\"color-red\">", "<code>", "<u>", "<del>",
                 "<em>", "<strong>", "a">> \o Lt
               \o <<"</strong>", "</em>", "</del>", "</u>", "</code>",
                    "</span>", "</a>">>

\* An image block whose source object for its declared variant is there.
IsRenderableImage(b) ==
    /\ b.hasType /\ b.type = "image" /\ b.payload
    /\ IF b.data.type = "external" THEN b.data.hasExternal ELSE b.data.hasFile

\* The alternative texts an image of the model can carry.
AltTexts ==
    {"image"} \cup {JoinChars(PlainTextOf(c.items)) : c \in {c \in Captions : c.defined}}

ImgToken(url, alt) == "<img src=\"" \o url \o "\" alt=\"" \o alt \o "\" />"

IsToggle(b) == b.hasType /\ b.type = "toggle" /\ b.payload

\* The texts of blocks and of the blocks under them, in document order.
RECURSIVE TextsOf(_)
TextsOf(bs) ==
    IF bs = <<>> THEN <<>>
    ELSE (IF Head(bs).hasType /\ Head(bs).payload
          THEN PlainTextOf(Head(bs).data.rich_text.items) ELSE <<>>)
         \o (IF Head(bs).children.defined
             THEN TextsOf(Head(bs).children.items) ELSE <<>>)
         \o TextsOf(Tail(bs))

\* Every block of the list, at any depth, has a type and its payload.
RECURSIVE AllRenderable(_)
AllRenderable(bs) ==
    \A k \in 1..Len(bs) :
        /\ bs[k].hasType /\ bs[k].payload
        /\ bs[k].children.defined => AllRenderable(bs[k].children.items)

IsTextToken(t) == t \in {"B", "C", "T"}

\* C14: a toggle renders <details><summary>spans</summary>...</details>;
\* with children absent or empty nothing follows the summary and the call
\* does not throw; with children present their fragments follow the
\* summary, in order, inside the same details element.
C14_ToggleSummaryThenChildren ==
    (bPc \in {"done", "thrown"} /\ IsToggle(bBlock)
         /\ (bBlock.children.defined => AllRenderable(bBlock.children.items))) =>
        LET out == bResult.html
            summary == <<"<details>", "<summary>">>
                           \o Escaped(PlainTextOf(bBlock.data.rich_text.items))
                           \o <<"</summary>">>
            n == Len(summary)
            content == SubSeq(out, n + 1, Len(out) - 1)
        IN  /\ bPc = "done"
            /\ Len(out) > n
            /\ SubSeq(out, 1, n) = summary
            /\ out[Len(out)] = "</details>"
            /\ (~bBlock.children.defined \/ bBlock.children.items = <<>>) =>
                   content = <<>>
            /\ bBlock.children.defined =>
                   /\ SelectSeq(content, IsTextToken)
                          = TextsOf(bBlock.children.items)
                   /\ Count(content, "<details>") = Count(content, "</details>")
                   /\ bBlock.children.items # <<>> => content # <<>>

C14_Witness ==
    /\ bPc = "done"
    /\ bBlock = Block("toggle", <<"S", "&">>, Undefined)
    /\ bResult.html = <<"<details>", "<summary>", "S">> \o Amp
                          \o <<"</summary>", "</details>">>

----------------------------------------------------------------------------
(* Properties of fetch, read off the remote and the calls.                  *)

RECURSIVE Flatten2(_)
Flatten2(pages) ==
    IF pages = <<>> THEN <<>> ELSE Head(pages) \o Flatten2(Tail(pages))

\* The children a returned block carries, in whichever field holds them.
ChildrenOfBlock(block) ==
    IF block.children.defined THEN block.children.items
    ELSE IF block.payload.children.defined THEN block.payload.children.items
    ELSE <<>>

IdsOf(nodes) == [k \in 1..Len(nodes) |-> nodes[k].id]

FetchReturned == fetches[RootId].status = "resolved"

\* C15: a block returned for a parent with children carries every child the
\* remote holds for it, whatever the number of pages they are listed in.
C15_AllPagesReturned ==
    \A id \in FetchIds :
        (fetches[id].status = "resolved" /\ notion[id].has_children)
            => IdsOf(ChildrenOfBlock(fetches[id].block))
                   = Flatten2(notion[id].pages)

\* The rank at which fetch(id) resolved among the calls of fetch.
ResolvedAt(id) == fetches[id].order

\* C16: every listed child is being fetched as soon as the listing is in,
\* and the i-th child a returned block carries is the block fetch returned
\* for the i-th child of the remote listing, in whatever order the child
\* fetches completed.
C16_ChildrenInSourceOrder ==
    \A id \in FetchIds :
        /\ fetches[id].status = "children"
               => \A k \in 1..Len(fetches[id].results) :
                      fetches[fetches[id].results[k]].status # "idle"
        /\ (fetches[id].status = "resolved" /\ notion[id].has_children)
               => /\ Len(ChildrenOfBlock(fetches[id].block))
                         = Len(ListResults(notion[id]))
                  /\ \A k \in 1..Len(ChildrenOfBlock(fetches[id].block)) :
                         /\ ChildrenOfBlock(fetches[id].block)[k].id
                                = Flatten2(notion[id].pages)[k]
                         /\ ChildrenOfBlock(fetches[id].block)[k]
                                = fetches[Flatten2(notion[id].pages)[k]].block

\* The root is returned with three children of which the last resolved
\* first and the first resolved last, the first one with a child of its own.
C16_Witness ==
    /\ FetchReturned
    /\ IdsOf(ChildrenOfBlock(fetches[RootId].block)) = <<1, 2, 3>>
    /\ ResolvedAt(3) < ResolvedAt(2)
    /\ ResolvedAt(2) < ResolvedAt(1)
    /\ IdsOf(ChildrenOfBlock(fetches[1].block)) = <<GrandchildId>>

\* The client calls that failed, as positions in fLog.
FailedCalls == {k \in 1..Len(fLog) : ~fLog[k].ok}

\* The first client call that failed.
FirstFailure ==
    LET k == CHOOSE j \in FailedCalls : \A l \in FailedCalls : j <= l
    IN  [call |-> fLog[k].call, id |-> fLog[k].id]

\* C17: from the moment a retrieve or list call of the root or of a
\* descendant fails, fetch of the root is rejected with that failure and
\* stays so: no block is returned, however many siblings resolved.
C17_FailureRejectsWholeFetch ==
    /\ FailedCalls # {}
           => /\ fetches[RootId].status = "rejected"
              /\ fetches[RootId].error = FirstFailure
    /\ FetchReturned => FailedCalls = {}

\* The retrieve call of the child of block 1 fails after blocks 2 and 3
\* resolved: the failure of a call two levels down rejects the root.
C17_Witness ==
    /\ fetches[RootId].status = "rejected"
    /\ fetches[RootId].error = [call |-> "retrieve", id |-> GrandchildId]
    /\ fetches[2].status = "resolved"
    /\ fetches[3].status = "resolved"
    /\ fetches[2].order < fetches[GrandchildId].order

\* The blocks fetch returned for the listed children of a block.
FetchedChildren(id) ==
    [k \in 1..Len(fetches[id].results) |->
        fetches[fetches[id].results[k]].block]

\* C18: a returned table or toggle with has_children set holds the fetched
\* children in its kind-specific object and has no generic children field;
\* a returned block of another kind with has_children set holds them in
\* the generic field and keeps its kind-specific object as retrieved.
C18_ContainerChildrenMoved ==
    \A id \in FetchIds :
        (fetches[id].status = "resolved" /\ notion[id].has_children)
            => IF notion[id].type \in {"table", "toggle"}
               THEN /\ fetches[id].block.payload
                           = [RemotePayload(id) EXCEPT
                                 !.children = Arr(FetchedChildren(id))]
                    /\ ~fetches[id].block.children.defined
               ELSE /\ fetches[id].block.children
                           = Arr(FetchedChildren(id))
                    /\ fetches[id].block.payload = RemotePayload(id)

\* A table is returned with two children in table.children, the first of
\* them a toggle holding its own child in toggle.children.
C18_Witness ==
    /\ FetchReturned
    /\ notion[RootId].type = "table"
    /\ IdsOf(fetches[RootId].block.payload.children.items) = <<1, 2>>
    /\ fetches[RootId].block.payload.children.items[1].type = "toggle"
    /\ IdsOf(fetches[RootId].block.payload.children.items[1]
                 .payload.children.items) = <<GrandchildId>>

----------------------------------------------------------------------------
(* Properties of process, read off the query results, the maps and the      *)
(* error.                                                                   *)

\* The results the schema rejects, as indices.
RejectedPages ==
    {k \in 1..Len(response) : ~SchemaAccepts(response[k].properties)}

\* The message holds the id as it is.
MessageNames(message, id) == \E j \in 1..Len(message) : message[j] = id

\* C19: once the query has returned results of which the schema rejects
\* one, process is rejected with a message holding the id of the first
\* such page, and the content of no page is fetched or rendered.
C19_SchemaFailureRejectsBatch ==
    (pPc \notin {"idle", "query"} /\ RejectedPages # {})
        => /\ pPc = "rejected"
           /\ \E k \in RejectedPages :
                  /\ \A j \in RejectedPages : k <= j
                  /\ pError = SchemaMessage(revision, response[k].id)
                  /\ MessageNames(pError, response[k].id)
           /\ \A k \in 1..Len(response) : contents[k] = "not started"

\* Of three pages the schema accepts the first and the third and rejects
\* the second: process is rejected naming the second.
C19_Witness ==
    /\ pPc = "rejected"
    /\ Len(response) = 3
    /\ RejectedPages = {2}
    /\ MessageNames(pError, PageId(2))
    /\ DOMAIN entries = {PageId(1)}

\* C20: when the content of every page has settled, the pages whose content
\* was fetched and rendered are returned with it, whether or not the
\* content of another page failed.
C20_ContentFailureScopedToEntry ==
    (/\ RejectedPages = {}
     /\ \E k \in 1..Len(response) : response[k].content = "ok"
     /\ \A k \in 1..Len(response) : contents[k] \in {"resolved", "rejected"})
        => /\ pPc = "resolved"
           /\ \A k \in 1..Len(response) :
                  response[k].content = "ok"
                      => entries[response[k].id].content
                             = ContentHtml(response[k])

----------------------------------------------------------------------------
(* The schema-based converter's properties, read off the tree and the      *)
(* error it leaves.  Each top-level block yields exactly one child of the  *)
(* root, so sTree[k] is the node of sBlocks[k].                            *)

SchemaListItemTypes == {"bulleted_list_item", "numbered_list_item", "to_do"}

\* The number of chunks of `width` that `n` children fall into.
NumChunks(n, width) == (n + width - 1) \div width

IsRenderedTable(k) ==
    /\ k \in 1..Len(sBlocks)
    /\ sBlocks[k].type = "table"
    /\ ~sBlocks[k].children.defined

\* C5: a rendered table has one row element per chunk of table_width of
\* its flat children; with table_width 2 and 4 children that is exactly 2
\* "tr" elements, each holding exactly 2 "td" elements.
C5_TableRowPerChunk ==
    sPc = "done" =>
        \A k \in 1..Len(sBlocks) :
            IsRenderedTable(k) =>
                LET data == sBlocks[k].data
                    tbody == sTree[k].children[1]
                IN  /\ tbody.tagName = "tbody"
                    /\ Len(tbody.children) =
                           NumChunks(Len(data.children.items), data.table_width)
                    /\ (data.table_width = 2 /\ Len(data.children.items) = 4) =>
                           \A r \in 1..Len(tbody.children) :
                               /\ tbody.children[r].tagName = "tr"
                               /\ Len(tbody.children[r].children) = 2
                               /\ \A c \in 1..2 :
                                      tbody.children[r].children[c].tagName = "td"

IsRenderedListItem(k) ==
    /\ k \in 1..Len(sBlocks)
    /\ sBlocks[k].type \in SchemaListItemTypes

\* C6: the node rendered for a list item is the list entry "li" itself,
\* never a "ul" or "ol" wrapper of its own, and the output of a call on
\* list items only opens no wrapper per item.
C6_ListItemIsEntryOnly ==
    sPc = "done" =>
        /\ \A k \in 1..Len(sBlocks) :
               IsRenderedListItem(k) => sTree[k].tagName = "li"
        /\ (Len(sBlocks) >= 2 /\ \A k \in 1..Len(sBlocks) : IsRenderedListItem(k))
               => Count(sHtml, "<ul>") + Count(sHtml, "<ol>") < Len(sBlocks)

\* A block of the rendering path fails shape validation: the block itself
\* or one under its generic children.
RECURSIVE FailsValidation(_)
FailsValidation(b) ==
    \/ ParseElement(b).status = "ZodError"
    \/ /\ b.children.defined
       /\ \E k \in 1..Len(b.children.items) : FailsValidation(b.children.items[k])

Contains(seq, t) == \E k \in 1..Len(seq) : seq[k] = t

FailedToParse(id, type) == "Failed to parse block: " \o id \o " (" \o type \o ")"

\* C7: when a block of the rendering path fails shape validation the call
\* throws and returns no HTML, and the message of a validation error holds
\* 'Failed to parse block: <id> (<type>)' for the block that failed.
C7_ValidationFailureNamesBlock ==
    /\ sPc = "done" =>
           \A k \in 1..Len(sBlocks) : ~FailsValidation(sBlocks[k])
    /\ sPc = "thrown" => sHtml = <<>>
    /\ (sPc = "thrown" /\ sError.name = "ZodError") =>
           Contains(sError.message, FailedToParse(sError.id, sError.type))

\* The nodes element.parse returns for the block's own content.
OwnChildren(b) == ParseElement(b).nodes[1].children

\* C23: a rendered quote or paragraph with generic children holds its own
\* spans first and the trees of its children after them.
C23_ChildrenAfterOwnSpans ==
    sPc = "done" =>
        \A k \in 1..Len(sBlocks) :
            (sBlocks[k].type \in {"quote", "paragraph"}
                 /\ sBlocks[k].children.defined)
                => sTree[k].children
                       = OwnChildren(sBlocks[k])
                             \o MapToHastTree(sBlocks[k].children.items).nodes

\* C27: a call throws only for a block that fails shape validation: a
\* block with its required fields renders, with or without a color.
C27_CompletePayloadRenders ==
    sPc = "thrown" => FailsValidation(sBlocks[sIdx])

\* C24: at the start of an iteration a wrapper is open only if the block
\* of the iteration is a list item of the wrapper's kind, and no wrapper
\* is open when the loop is over: the look-ahead has closed every wrapper
\* after the last item of its run.
C24_WrapperOpenOnlyInsideRun ==
    pc = "top" =>
        IF i <= Len(blocks)
        THEN /\ listType = "ul"
                    => (blocks[i].hasType
                            /\ blocks[i].type = "bulleted_list_item")
             /\ listType = "ol"
                    => (blocks[i].hasType
                            /\ blocks[i].type = "numbered_list_item")
        ELSE listType = "null"

\* The third iteration starts inside a run of numbered items that follows
\* a bulleted item.
C24_Witness ==
    /\ pc = "top"
    /\ i = 3
    /\ Len(blocks) = 3
    /\ listType = "ol"
    /\ blocks[1].hasType /\ blocks[1].type = "bulleted_list_item"
    /\ blocks[2].hasType /\ blocks[2].type = "numbered_list_item"

\* C25: no list call of one call of fetchBlockChildren asks for a page an
\* earlier list call of it asked for, so the loop ends after at most one
\* list call per page.
C25_NoPageRequestedTwice ==
    \A j, k \in 1..Len(requests) : j < k => requests[j] # requests[k]

\* C26: the loop of the table transform runs at most once for each child
\* of the table, whatever the table_width, and so comes to an end.
C26_OneIterationPerChildAtMost ==
    Len(tRows) <= Len(table.children)

\* C28: a call that rejects leaves entries and slugs as they were when it
\* was called: empty.
C28_RejectedCallLeavesMapsUnchanged ==
    pPc = "rejected" => (slugs = <<>> /\ entries = <<>>)

\* C30: in the later revision, a call whose query returns pages the schema
\* accepts, none with a failing fetch or render, returns, and the content
\* of a page without content is "".
C30_PageWithoutContentIsEmpty ==
    (/\ revision = "later"
     /\ RejectedPages = {}
     /\ \A k \in 1..Len(response) :
            response[k].content \in {"ok", "no children"}
     /\ \A k \in 1..Len(response) : contents[k] \in {"resolved", "rejected"})
        => /\ pPc = "resolved"
           /\ \A k \in 1..Len(response) :
                  response[k].content = "no children"
                      => entries[response[k].id].content = <<>>

----------------------------------------------------------------------------
(* Properties of several calls of process on one manager.                   *)

\* C21: this.slugs is not written between two reads of it by the renders
\* of one call, however the content tasks and the calls interleave.
C21_NoWriteBetweenReads ==
    \A h, j, k \in 1..Len(slugOps) :
        (h < j /\ j < k /\ slugOps[h].op = "read" /\ slugOps[k].op = "read"
             /\ slugOps[h].call = slugOps[k].call)
            => slugOps[j].op # "set"

\* The entry a call is to return for a page of its query.
EntryOf(page) ==
    [properties |-> page.properties, slug |-> Slugger(page.properties),
     content |-> ContentHtml(page)]

\* C22: the map a call returns holds the pages of the query of that call
\* and no other, each under its id with its properties, slug and content;
\* it is empty for an empty query result.
C22_ReturnedMapIsQueryResult ==
    \A c \in 1..MaxCalls :
        calls[c].pc = "resolved"
            => /\ DOMAIN calls[c].returned
                      = {calls[c].response[k].id :
                            k \in 1..Len(calls[c].response)}
               /\ \A k \in 1..Len(calls[c].response) :
                      calls[c].returned[calls[c].response[k].id]
                          = EntryOf(calls[c].response[k])

\* C29: entries and slugs have the same keys, and the slug of an entry is
\* the slug this.slugs holds for its id.
C29_EntriesAndSlugsAgree ==
    /\ DOMAIN entries = DOMAIN slugs
    /\ \A id \in DOMAIN entries : entries[id].slug = slugs[id]

\* Two calls overlapped: the second one renamed page 1 and was rejected
\* for page 2 while the first one was awaiting its contents; the first one
\* then stored its contents and returned.
C29_Witness ==
    /\ calls[1].pc = "resolved"
    /\ calls[2].pc = "rejected"
    /\ Len(calls[1].response) = 2
    /\ PageId(1) \in DOMAIN slugs
    /\ slugs[PageId(1)] = "slug of Renamed 1"
    /\ calls[1].response[1].properties.title = "Title 1"
    /\ entries[PageId(1)].content # <<>>
    /\ \E j \in 1..Len(slugOps) :
           /\ slugOps[j] = [op |-> "set", call |-> 2]
           /\ \A h \in 1..Len(slugOps) :
                  slugOps[h].call = 1 /\ slugOps[h].op = "set" => h < j

====
